---- MODULE Spec2Model ----
(***************************************************************************)
(* Model of the compatibility scoring and recommendation engine of the     *)
(* Steam compatibility checker: CompatibilityAnalyzer (analyze and its     *)
(* private steps) and CoopGameSuggester over the static co-op catalog.     *)
(*                                                                         *)
(* JavaScript numbers are modelled as exact reals.  A rational is a record *)
(* [n, d] in lowest terms with d > 0; the one irrational quantity of the   *)
(* program, the Pearson correlation (Math.sqrt), is carried as a signed    *)
(* square root inside a value  q + c * sqrt(rho)  and compared exactly.    *)
(***************************************************************************)
EXTENDS Integers, Sequences, FiniteSets, TLC

(***************************************************************************)
(* Exact arithmetic                                                        *)
(***************************************************************************)
Abs(x) == IF x < 0 THEN -x ELSE x

RECURSIVE Gcd(_, _)
Gcd(a, b) == IF b = 0 THEN a ELSE Gcd(b, a % b)

Rat(n, d) ==
  LET g == Gcd(Abs(n), Abs(d))
      s == IF d < 0 THEN -1 ELSE 1
  IN  [n |-> s * (n \div g), d |-> s * (d \div g)]

RInt(k) == [n |-> k, d |-> 1]

RAdd(x, y) ==
  LET g == Gcd(x.d, y.d)
  IN  Rat(x.n * (y.d \div g) + y.n * (x.d \div g), (x.d \div g) * y.d)

RNeg(x) == [n |-> -x.n, d |-> x.d]

RSub(x, y) == RAdd(x, RNeg(y))

RMul(x, y) ==
  LET g1 == Gcd(Abs(x.n), y.d)
      g2 == Gcd(Abs(y.n), x.d)
  IN  IF x.n = 0 \/ y.n = 0 THEN RInt(0)
      ELSE Rat((x.n \div g1) * (y.n \div g2), (x.d \div g2) * (y.d \div g1))

RDiv(x, y) == RMul(x, Rat(y.d, y.n))

RLe(x, y) ==
  LET g == Gcd(x.d, y.d)
  IN  x.n * (y.d \div g) <= y.n * (x.d \div g)

RLt(x, y) == ~RLe(y, x)

RMin(x, y) == IF RLe(x, y) THEN x ELSE y

RMax(x, y) == IF RLe(x, y) THEN y ELSE x

RFloor(x) == x.n \div x.d

RIsInt(x) == x.d = 1

IMin(a, b) == IF a <= b THEN a ELSE b

IMax(a, b) == IF a <= b THEN b ELSE a

(***************************************************************************)
(* Natural numbers beyond the machine word, little-endian in base BigBase, *)
(* for the squared comparisons that Math.sqrt requires.                    *)
(***************************************************************************)
BigBase == 10000

RECURSIVE BigOf(_)
BigOf(k) == IF k = 0 THEN << >> ELSE <<k % BigBase>> \o BigOf(k \div BigBase)

RECURSIVE BigScale(_, _, _)
BigScale(a, m, carry) ==
  IF a = << >> THEN BigOf(carry)
  ELSE LET v == Head(a) * m + carry
       IN  <<v % BigBase>> \o BigScale(Tail(a), m, v \div BigBase)

RECURSIVE BigAdd(_, _, _)
BigAdd(a, b, carry) ==
  IF a = << >> /\ b = << >> THEN BigOf(carry)
  ELSE LET x == IF a = << >> THEN 0 ELSE Head(a)
           y == IF b = << >> THEN 0 ELSE Head(b)
           v == x + y + carry
       IN  <<v % BigBase>>
             \o BigAdd(IF a = << >> THEN a ELSE Tail(a),
                       IF b = << >> THEN b ELSE Tail(b), v \div BigBase)

RECURSIVE BigMul(_, _)
BigMul(a, b) ==
  IF b = << >> THEN << >>
  ELSE BigAdd(BigScale(a, Head(b), 0), <<0>> \o BigMul(a, Tail(b)), 0)

RECURSIVE BigTrim(_)
BigTrim(a) ==
  IF a # << >> /\ a[Len(a)] = 0 THEN BigTrim(SubSeq(a, 1, Len(a) - 1)) ELSE a

RECURSIVE BigLeTrimmed(_, _)
BigLeTrimmed(a, b) ==
  IF Len(a) # Len(b) THEN Len(a) < Len(b)
  ELSE IF a = << >> THEN TRUE
  ELSE IF a[Len(a)] # b[Len(b)] THEN a[Len(a)] < b[Len(b)]
  ELSE BigLeTrimmed(SubSeq(a, 1, Len(a) - 1), SubSeq(b, 1, Len(b) - 1))

BigLe(a, b) == BigLeTrimmed(BigTrim(a), BigTrim(b))

\* x^2 * y as a big natural, for integers x and y >= 0.
BigSqTimes(x, y) == BigMul(BigMul(BigOf(Abs(x)), BigOf(Abs(x))), BigOf(y))

(***************************************************************************)
(* Values  q + c * sqrt(rho)  with rational q, c and rational rho >= 0.    *)
(***************************************************************************)
Val(q) == [q |-> q, c |-> RInt(0), rho |-> RInt(0)]

VIsRat(v) == v.c.n = 0 \/ v.rho.n = 0

\* c * sqrt(rho) <= u, decided on signs and then on squares.
SurdLe(c, rho, u) ==
  LET lhsSq == BigMul(BigSqTimes(c.n, rho.n), BigMul(BigOf(u.d), BigOf(u.d)))
      rhsSq == BigMul(BigSqTimes(u.n, rho.d), BigMul(BigOf(c.d), BigOf(c.d)))
  IN  IF c.n = 0 \/ rho.n = 0 THEN 0 <= u.n
      ELSE IF c.n > 0 THEN (u.n >= 0 /\ BigLe(lhsSq, rhsSq))
      ELSE (u.n >= 0 \/ BigLe(rhsSq, lhsSq))

VLeRat(v, t) == SurdLe(v.c, v.rho, RSub(t, v.q))

\* t <= v
RatLeV(t, v) == SurdLe(RNeg(v.c), v.rho, RSub(v.q, t))

VAddRat(v, t) == [v EXCEPT !.q = RAdd(v.q, t)]

VScale(v, t) ==
  IF t.n = 0 THEN Val(RInt(0))
  ELSE [q |-> RMul(v.q, t), c |-> RMul(v.c, t), rho |-> v.rho]

\* Math.min(t, v) and Math.max(t, v) for a rational t.
VMinRat(t, v) == IF VLeRat(v, t) THEN v ELSE Val(t)

VMaxRat(t, v) == IF RatLeV(t, v) THEN v ELSE Val(t)

\* Math.round: the integer k with k - 1/2 <= v < k + 1/2.
MathRound(v) ==
  LET lo == RFloor(RAdd(RSub(v.q, [n |-> Abs(v.c.n), d |-> v.c.d]), Rat(1, 2)))
      hi == RFloor(RAdd(RAdd(v.q, [n |-> Abs(v.c.n), d |-> v.c.d]), Rat(1, 2)))
      ks == {k \in lo..hi : RatLeV(Rat(2 * k - 1, 2), v)}
  IN  IF VIsRat(v) THEN RFloor(RAdd(v.q, Rat(1, 2)))
      ELSE CHOOSE k \in ks : \A j \in ks : j <= k

VIsInt(v) == VIsRat(v) /\ RIsInt(v.q)

\* Integer square root by bisection: the largest r in lo..hi with r * r <= k.
RECURSIVE ISqrtIn(_, _, _)
ISqrtIn(k, lo, hi) ==
  IF lo >= hi THEN lo
  ELSE LET mid == (lo + hi + 1) \div 2
       IN  IF mid <= k \div mid THEN ISqrtIn(k, mid, hi) ELSE ISqrtIn(k, lo, mid - 1)

ISqrt(k) == ISqrtIn(k, 0, k)

IsSquare(k) == ISqrt(k) * ISqrt(k) = k

\* sign * Math.sqrt(rho): rational when rho is the square of a rational.
SignedSqrt(sign, rho) ==
  IF sign = 0 \/ rho.n = 0 THEN Val(RInt(0))
  ELSE IF IsSquare(rho.n) /\ IsSquare(rho.d) THEN Val(Rat(sign * ISqrt(rho.n), ISqrt(rho.d)))
  ELSE [q |-> RInt(0), c |-> RInt(sign), rho |-> rho]

(***************************************************************************)
(* Generic sequence helpers                                                *)
(***************************************************************************)
Range(s) == {s[i] : i \in 1..Len(s)}

RECURSIVE SeqsUpTo(_, _)
SeqsUpTo(S, k) ==
  IF k = 0 THEN {<< >>}
  ELSE LET shorter == SeqsUpTo(S, k - 1)
       IN  shorter \cup {Append(s, x) : s \in {r \in shorter : Len(r) = k - 1}, x \in S}

\* Array.prototype.slice(0, k)
Slice0(s, k) == SubSeq(s, 1, IMin(Len(s), k))

\* Array.prototype.sort with comparator (a, b) => key(b) - key(a): a stable
\* descending sort.  Element i is preceded by the elements with a greater
\* key and by the earlier elements with an equal key; SortPerm gives the
\* index of the element at each place.
SortPerm(keys) ==
  LET n == Len(keys)
      Before(i) ==
        Cardinality({j \in 1..n : RLt(keys[i], keys[j]) \/ (j < i /\ RLe(keys[i], keys[j]))})
      placed == {<<Before(i) + 1, i>> : i \in 1..n}
  IN  [k \in 1..n |-> (CHOOSE p \in placed : p[1] = k)[2]]

SortDescBy(s, keys) ==
  LET p == SortPerm(keys) IN [i \in 1..Len(s) |-> s[p[i]]]

\* Sums of a sequence, added pairwise by halves.
RECURSIVE SumRat(_)
SumRat(s) ==
  IF s = << >> THEN RInt(0)
  ELSE IF Len(s) = 1 THEN s[1]
  ELSE RAdd(SumRat(SubSeq(s, 1, Len(s) \div 2)), SumRat(SubSeq(s, Len(s) \div 2 + 1, Len(s))))

RECURSIVE SumInt(_)
SumInt(s) ==
  IF s = << >> THEN 0
  ELSE IF Len(s) = 1 THEN s[1]
  ELSE SumInt(SubSeq(s, 1, Len(s) \div 2)) + SumInt(SubSeq(s, Len(s) \div 2 + 1, Len(s)))

\* The indices of s, in order.
Indices(s) == [i \in 1..Len(s) |-> i]

(***************************************************************************)
(* The static co-op catalog, in the order Object.values lists its integer  *)
(* keys (ascending appId).  Names, descriptions and URLs are display text. *)
(***************************************************************************)
coopGamesDatabase ==
  <<
    [appId |-> 550, coopType |-> "online", maxPlayers |-> 4,
     genres |-> <<"Action", "Co-op", "Zombies", "FPS">>, isPopular |-> TRUE],
    [appId |-> 620, coopType |-> "online", maxPlayers |-> 2,
     genres |-> <<"Puzzle", "Co-op", "First-Person">>, isPopular |-> TRUE],
    [appId |-> 105600, coopType |-> "online", maxPlayers |-> 8,
     genres |-> <<"Sandbox", "Adventure", "Co-op", "2D">>, isPopular |-> TRUE],
    [appId |-> 218620, coopType |-> "online", maxPlayers |-> 4,
     genres |-> <<"FPS", "Co-op", "Heist", "Crime">>, isPopular |-> TRUE],
    [appId |-> 239140, coopType |-> "online", maxPlayers |-> 4,
     genres |-> <<"Survival", "Co-op", "Zombies", "Parkour">>, isPopular |-> TRUE],
    [appId |-> 242760, coopType |-> "online", maxPlayers |-> 8,
     genres |-> <<"Survival", "Co-op", "Horror", "Building">>, isPopular |-> TRUE],
    [appId |-> 252950, coopType |-> "online", maxPlayers |-> 8,
     genres |-> <<"Sports", "Racing", "Multiplayer", "Soccer">>, isPopular |-> TRUE],
    [appId |-> 268910, coopType |-> "local", maxPlayers |-> 2,
     genres |-> <<"Action", "Local Co-Op", "Platformer", "Difficult">>, isPopular |-> TRUE],
    [appId |-> 322330, coopType |-> "online", maxPlayers |-> 6,
     genres |-> <<"Survival", "Co-op", "Indie", "Adventure">>, isPopular |-> TRUE],
    [appId |-> 397540, coopType |-> "online", maxPlayers |-> 4,
     genres |-> <<"FPS", "Co-op", "Loot", "Action RPG">>, isPopular |-> TRUE],
    [appId |-> 413150, coopType |-> "online", maxPlayers |-> 4,
     genres |-> <<"Simulation", "Farming", "Co-op", "Relaxing">>, isPopular |-> TRUE],
    [appId |-> 477160, coopType |-> "both", maxPlayers |-> 8,
     genres |-> <<"Puzzle", "Co-op", "Physics", "Platformer">>, isPopular |-> TRUE],
    [appId |-> 548430, coopType |-> "online", maxPlayers |-> 4,
     genres |-> <<"FPS", "Co-op", "Mining", "Dwarfs">>, isPopular |-> TRUE],
    [appId |-> 582010, coopType |-> "online", maxPlayers |-> 4,
     genres |-> <<"Action", "Co-op", "Hunting", "RPG">>, isPopular |-> TRUE],
    [appId |-> 632360, coopType |-> "online", maxPlayers |-> 4,
     genres |-> <<"Roguelike", "Co-op", "Third-Person Shooter", "3D">>, isPopular |-> TRUE],
    [appId |-> 648800, coopType |-> "online", maxPlayers |-> 10,
     genres |-> <<"Survival", "Co-op", "Building", "Ocean">>, isPopular |-> TRUE],
    [appId |-> 728880, coopType |-> "both", maxPlayers |-> 4,
     genres |-> <<"Co-op", "Party Game", "Local Co-Op", "Cooking">>, isPopular |-> TRUE],
    [appId |-> 739630, coopType |-> "online", maxPlayers |-> 4,
     genres |-> <<"Horror", "Co-op", "Ghosts", "Investigation">>, isPopular |-> TRUE],
    [appId |-> 892970, coopType |-> "online", maxPlayers |-> 10,
     genres |-> <<"Survival", "Co-op", "Building", "Vikings">>, isPopular |-> TRUE],
    [appId |-> 945360, coopType |-> "online", maxPlayers |-> 15,
     genres |-> <<"Party Game", "Multiplayer", "Social Deduction", "Space">>, isPopular |-> TRUE],
    [appId |-> 996770, coopType |-> "both", maxPlayers |-> 4,
     genres |-> <<"Co-op", "Party Game", "Physics", "Local Co-Op">>, isPopular |-> TRUE],
    [appId |-> 1085660, coopType |-> "online", maxPlayers |-> 6,
     genres |-> <<"FPS", "MMO", "Co-op", "Sci-fi">>, isPopular |-> TRUE],
    [appId |-> 1097150, coopType |-> "online", maxPlayers |-> 60,
     genres |-> <<"Party Game", "Battle Royale", "Multiplayer", "Colorful">>, isPopular |-> TRUE],
    [appId |-> 1222700, coopType |-> "online", maxPlayers |-> 2,
     genres |-> <<"Adventure", "Co-op", "Story Rich", "Action">>, isPopular |-> TRUE],
    [appId |-> 1426210, coopType |-> "both", maxPlayers |-> 2,
     genres |-> <<"Adventure", "Co-op", "Platformer", "Story Rich">>, isPopular |-> TRUE]
  >>

HasCoopGameInfo(appId) == \E i \in 1..Len(coopGamesDatabase) : coopGamesDatabase[i].appId = appId

getCoopGameInfo(appId) ==
  coopGamesDatabase[CHOOSE i \in 1..Len(coopGamesDatabase) : coopGamesDatabase[i].appId = appId]

getAllCoopGames == coopGamesDatabase

getPopularCoopGames == SelectSeq(coopGamesDatabase, LAMBDA g : g.isPopular)

isCoopGame(appId) == HasCoopGameInfo(appId)

(***************************************************************************)
(* Configuration set by the constructor when no config is supplied         *)
(***************************************************************************)
DefaultConfig ==
  [weights |-> [commonGames |-> Rat(35, 100), genreCompatibility |-> Rat(25, 100),
                playtimeCompatibility |-> Rat(25, 100), coopBonus |-> Rat(15, 100)],
   minPlaytimeForAnalysis |-> 30,
   maxRecommendations |-> 10,
   maxCoopSuggestions |-> 8]

(***************************************************************************)
(* CompatibilityAnalyzer: validation and common-game detection             *)
(***************************************************************************)
NoError == [kind |-> "none", hasType |-> FALSE, type |-> "", message |-> ""]

\* throw new Error(message): an Error object has a message and no type tag.
PlainError(msg) == [kind |-> "Error", hasType |-> FALSE, type |-> "", message |-> msg]

\* throw of a CompatibilityAnalysisError object literal {type, message}.
AnalysisError(type, msg) ==
  [kind |-> "CompatibilityAnalysisError", hasType |-> TRUE, type |-> type, message |-> msg]

\* The error validateInputs throws, NoError when it returns normally.
\* validateInputs with the emptiness check made before the visibility checks.
validateInputsEmptyFirst(lib1, lib2) ==
  IF ~lib1.present \/ ~lib2.present
    THEN PlainError("Both game libraries are required")
  ELSE IF Len(lib1.games) = 0 /\ Len(lib2.games) = 0
    THEN AnalysisError("INSUFFICIENT_DATA", "Both users have empty game libraries")
  ELSE IF ~lib1.isPublic
    THEN AnalysisError("PRIVATE_PROFILE", "User 1 profile is private")
  ELSE IF ~lib2.isPublic
    THEN AnalysisError("PRIVATE_PROFILE", "User 2 profile is private")
  ELSE NoError

\* validateInputs rejecting a pair as soon as one library is empty.
validateInputsEitherEmpty(lib1, lib2) ==
  IF ~lib1.present \/ ~lib2.present
    THEN PlainError("Both game libraries are required")
  ELSE IF ~lib1.isPublic
    THEN AnalysisError("PRIVATE_PROFILE", "User 1 profile is private")
  ELSE IF ~lib2.isPublic
    THEN AnalysisError("PRIVATE_PROFILE", "User 2 profile is private")
  ELSE IF Len(lib1.games) = 0 \/ Len(lib2.games) = 0
    THEN AnalysisError("INSUFFICIENT_DATA", "Both users have empty game libraries")
  ELSE NoError

validateInputs(lib1, lib2) ==
  IF ~lib1.present \/ ~lib2.present
    THEN PlainError("Both game libraries are required")
  ELSE IF ~lib1.isPublic
    THEN AnalysisError("PRIVATE_PROFILE", "User 1 profile is private")
  ELSE IF ~lib2.isPublic
    THEN AnalysisError("PRIVATE_PROFILE", "User 2 profile is private")
  ELSE IF Len(lib1.games) = 0 /\ Len(lib2.games) = 0
    THEN AnalysisError("INSUFFICIENT_DATA", "Both users have empty game libraries")
  ELSE NoError

\* calculateGameCompatibilityFactor comparing with <= where the code has <.
calculateGameCompatibilityFactorInclusive(playtime1, playtime2, minPlaytime) ==
  LET maxPlaytime == IMax(playtime1, playtime2)
      minPlaytimeOfTwo == IMin(playtime1, playtime2)
      similarity == Rat(minPlaytimeOfTwo, maxPlaytime)
      playtimeBonus == RMin(RInt(1), Rat(playtime1 + playtime2, 60 * 20))
  IN  IF playtime1 <= minPlaytime /\ playtime2 <= minPlaytime THEN Rat(1, 10)
      ELSE IF playtime1 <= minPlaytime \/ playtime2 <= minPlaytime THEN Rat(4, 10)
      ELSE IF maxPlaytime = 0 THEN Rat(1, 10)
      ELSE RMin(RInt(1), RAdd(RMul(similarity, Rat(7, 10)), RMul(playtimeBonus, Rat(3, 10))))

calculateGameCompatibilityFactor(playtime1, playtime2, minPlaytime) ==
  LET maxPlaytime == IMax(playtime1, playtime2)
      minPlaytimeOfTwo == IMin(playtime1, playtime2)
      similarity == Rat(minPlaytimeOfTwo, maxPlaytime)
      playtimeBonus == RMin(RInt(1), Rat(playtime1 + playtime2, 60 * 20))
  IN  IF playtime1 < minPlaytime /\ playtime2 < minPlaytime THEN Rat(1, 10)
      ELSE IF playtime1 < minPlaytime \/ playtime2 < minPlaytime THEN Rat(4, 10)
      ELSE IF maxPlaytime = 0 THEN Rat(1, 10)
      ELSE RMin(RInt(1), RAdd(RMul(similarity, Rat(7, 10)), RMul(playtimeBonus, Rat(3, 10))))

\* new Map(games2.map(game => [game.appId, game])).get(appId): the last entry
\* of games2 with that identifier.
MapHas(games, appId) == \E i \in 1..Len(games) : games[i].appId = appId

MapGet(games, appId) ==
  LET idx == {i \in 1..Len(games) : games[i].appId = appId}
  IN  games[CHOOSE i \in idx : \A j \in idx : j <= i]

\* game.genres || []
GenresOrEmpty(game) == IF game.hasGenres THEN game.genres ELSE << >>

\* CommonGameOf with the two playtimes attached the other way round.
CommonGameOfSwapped(game1, game2, minPlaytime) ==
  [appId |-> game1.appId,
   name |-> game1.name,
   user1Playtime |-> game2.playtimeForever,
   user2Playtime |-> game1.playtimeForever,
   compatibilityFactor |->
     calculateGameCompatibilityFactor(game1.playtimeForever, game2.playtimeForever, minPlaytime),
   isCoopSupported |-> isCoopGame(game1.appId),
   genres |-> GenresOrEmpty(game1)]

CommonGameOf(game1, game2, minPlaytime) ==
  [appId |-> game1.appId,
   name |-> game1.name,
   user1Playtime |-> game1.playtimeForever,
   user2Playtime |-> game2.playtimeForever,
   compatibilityFactor |->
     calculateGameCompatibilityFactor(game1.playtimeForever, game2.playtimeForever, minPlaytime),
   isCoopSupported |-> isCoopGame(game1.appId),
   genres |-> GenresOrEmpty(game1)]

\* The loop over games1, before the sort: one entry for every element of
\* games1 that the map of games2 has.
CommonGamesLoop(games1, games2, minPlaytime) ==
  LET matched == SelectSeq(games1, LAMBDA game1 : MapHas(games2, game1.appId))
  IN  [i \in 1..Len(matched) |->
         CommonGameOf(matched[i], MapGet(games2, matched[i].appId), minPlaytime)]

findCommonGames(games1, games2, minPlaytime) ==
  LET found == CommonGamesLoop(games1, games2, minPlaytime)
  IN  SortDescBy(found, [i \in 1..Len(found) |-> found[i].compatibilityFactor])

(***************************************************************************)
(* Genre and playtime affinity                                             *)
(***************************************************************************)
\* The genre labels the counting loop visits for one user, in visiting order.
RECURSIVE CountedGenres(_, _)
CountedGenres(games, minPlaytime) ==
  IF games = << >> THEN << >>
  ELSE LET game == Head(games)
       IN  (IF game.hasGenres /\ game.playtimeForever >= minPlaytime
              THEN game.genres ELSE << >>)
             \o CountedGenres(Tail(games), minPlaytime)

Occurrences(s, x) == Cardinality({i \in 1..Len(s) : s[i] = x})

\* Insertion order of a Set / Map filled from s: first occurrences only.
Distinct(s) ==
  LET firsts == SelectSeq(Indices(s), LAMBDA i : \A j \in 1..(i - 1) : s[j] # s[i])
  IN  [k \in 1..Len(firsts) |-> s[firsts[k]]]

GenreRecord(genre, visited1, visited2) ==
  LET user1Count == Occurrences(visited1, genre)
      user2Count == Occurrences(visited2, genre)
      commonCount == IMin(user1Count, user2Count)
      maxCount == IMax(user1Count, user2Count)
  IN  [genre |-> genre,
       user1Count |-> user1Count,
       user2Count |-> user2Count,
       commonCount |-> commonCount,
       compatibilityScore |->
         IF maxCount > 0 THEN RMul(Rat(commonCount, maxCount), RInt(100)) ELSE RInt(0)]

\* analyzeGenreCompatibility that counts the genres of every game with genre
\* data, whatever its playtime.
analyzeGenreCompatibilityAnyPlaytime(games1, games2, minPlaytime) ==
  LET visited1 == CountedGenres(games1, 0)
      visited2 == CountedGenres(games2, 0)
      allGenres == Distinct(visited1 \o visited2)
      all == [i \in 1..Len(allGenres) |-> GenreRecord(allGenres[i], visited1, visited2)]
      pushed == SelectSeq(all, LAMBDA r : r.user1Count > 0 \/ r.user2Count > 0)
  IN  SortDescBy(pushed, [i \in 1..Len(pushed) |-> pushed[i].compatibilityScore])

analyzeGenreCompatibility(games1, games2, minPlaytime) ==
  LET visited1 == CountedGenres(games1, minPlaytime)
      visited2 == CountedGenres(games2, minPlaytime)
      allGenres == Distinct(visited1 \o visited2)
      all == [i \in 1..Len(allGenres) |-> GenreRecord(allGenres[i], visited1, visited2)]
      pushed == SelectSeq(all, LAMBDA r : r.user1Count > 0 \/ r.user2Count > 0)
  IN  SortDescBy(pushed, [i \in 1..Len(pushed) |-> pushed[i].compatibilityScore])

calculateCorrelation(x, y) ==
  LET n == Len(x)
      sumX == SumInt(x)
      sumY == SumInt(y)
      sumXY == SumInt([i \in 1..n |-> x[i] * y[i]])
      sumX2 == SumInt([i \in 1..n |-> x[i] * x[i]])
      sumY2 == SumInt([i \in 1..n |-> y[i] * y[i]])
      numerator == n * sumXY - sumX * sumY
      varX == n * sumX2 - sumX * sumX
      varY == n * sumY2 - sumY * sumY
  IN  IF Len(x) # Len(y) \/ Len(x) = 0 THEN Val(RInt(0))
      ELSE IF varX = 0 \/ varY = 0 THEN Val(RInt(0))
      ELSE SignedSqrt(IF numerator > 0 THEN 1 ELSE IF numerator < 0 THEN -1 ELSE 0,
                      RMul(Rat(numerator, varX), Rat(numerator, varY)))

\* IsSimilarPlaytime that leaves out a difference of exactly 30%.
IsSimilarPlaytimeStrict(game) ==
  LET difference == Abs(game.user1Playtime - game.user2Playtime)
      maxPlaytime == IMax(game.user1Playtime, game.user2Playtime)
  IN  maxPlaytime > 0 /\ RLt(Rat(difference, maxPlaytime), Rat(3, 10))

IsSimilarPlaytime(game) ==
  LET difference == Abs(game.user1Playtime - game.user2Playtime)
      maxPlaytime == IMax(game.user1Playtime, game.user2Playtime)
  IN  maxPlaytime > 0 /\ RLe(Rat(difference, maxPlaytime), Rat(3, 10))

calculatePlaytimeCompatibility(common) ==
  LET n == Len(common)
      totalDifference == SumInt([i \in 1..n |-> Abs(common[i].user1Playtime - common[i].user2Playtime)])
      playtimes1 == [i \in 1..n |-> common[i].user1Playtime]
      playtimes2 == [i \in 1..n |-> common[i].user2Playtime]
  IN  IF n = 0
        THEN [averagePlaytimeDifference |-> RInt(0),
              playtimeCorrelation |-> Val(RInt(0)),
              similarPlaytimeGames |-> 0,
              totalCommonPlaytime |-> 0]
        ELSE [averagePlaytimeDifference |-> Rat(totalDifference, n),
              playtimeCorrelation |-> calculateCorrelation(playtimes1, playtimes2),
              similarPlaytimeGames |-> Cardinality({i \in 1..n : IsSimilarPlaytime(common[i])}),
              totalCommonPlaytime |-> SumInt(playtimes1) + SumInt(playtimes2)]

(***************************************************************************)
(* Component scores                                                        *)
(***************************************************************************)
\* calculateBaseScore with the weights of its two terms exchanged.
calculateBaseScoreExchanged(common, totalGames1, totalGames2) ==
  LET averageTotalGames == Rat(totalGames1 + totalGames2, 2)
      commonGameRatio == RDiv(RInt(Len(common)), averageTotalGames)
      averageCompatibilityFactor ==
        IF Len(common) > 0
          THEN RDiv(SumRat([i \in 1..Len(common) |-> common[i].compatibilityFactor]),
                    RInt(Len(common)))
          ELSE RInt(0)
  IN  IF totalGames1 = 0 \/ totalGames2 = 0 THEN RInt(0)
      ELSE RMin(RInt(100),
                RAdd(RMul(RMul(commonGameRatio, RInt(100)), Rat(3, 10)),
                     RMul(RMul(averageCompatibilityFactor, RInt(100)), Rat(7, 10))))

calculateBaseScore(common, totalGames1, totalGames2) ==
  LET averageTotalGames == Rat(totalGames1 + totalGames2, 2)
      commonGameRatio == RDiv(RInt(Len(common)), averageTotalGames)
      averageCompatibilityFactor ==
        IF Len(common) > 0
          THEN RDiv(SumRat([i \in 1..Len(common) |-> common[i].compatibilityFactor]),
                    RInt(Len(common)))
          ELSE RInt(0)
  IN  IF totalGames1 = 0 \/ totalGames2 = 0 THEN RInt(0)
      ELSE RMin(RInt(100),
                RAdd(RMul(RMul(commonGameRatio, RInt(100)), Rat(7, 10)),
                     RMul(RMul(averageCompatibilityFactor, RInt(100)), Rat(3, 10))))

calculateGenreScore(genres) ==
  LET topGenres == Slice0(genres, 5)
      averageScore ==
        RDiv(SumRat([i \in 1..Len(topGenres) |-> topGenres[i].compatibilityScore]),
             RInt(Len(topGenres)))
  IN  IF Len(genres) = 0 THEN RInt(0) ELSE RMin(RInt(100), averageScore)

\* calculatePlaytimeScore without the shift of the correlation from -1..1 to
\* 0..100.
calculatePlaytimeScoreUnshifted(playtime) ==
  LET correlationScore == VScale(playtime.playtimeCorrelation, RInt(50))
      similarRatio ==
        IF playtime.similarPlaytimeGames > 0
          THEN RMul(Rat(playtime.similarPlaytimeGames, 10), RInt(100))
          ELSE RInt(0)
  IN  VMinRat(RInt(100),
              VAddRat(VScale(correlationScore, Rat(6, 10)), RMul(similarRatio, Rat(4, 10))))

calculatePlaytimeScore(playtime) ==
  LET correlationScore == VScale(VAddRat(playtime.playtimeCorrelation, RInt(1)), RInt(50))
      similarRatio ==
        IF playtime.similarPlaytimeGames > 0
          THEN RMul(Rat(playtime.similarPlaytimeGames, 10), RInt(100))
          ELSE RInt(0)
  IN  VMinRat(RInt(100),
              VAddRat(VScale(correlationScore, Rat(6, 10)), RMul(similarRatio, Rat(4, 10))))

calculateCoopBonus(suggestions) ==
  LET ownedCoopGames == Len(SelectSeq(suggestions, LAMBDA s : s.bothOwnGame))
      highScoreCoopGames ==
        Len(SelectSeq(suggestions, LAMBDA s : RLe(RInt(80), s.compatibilityScore)))
      ownedBonus == IMin(50, ownedCoopGames * 15)
      qualityBonus == IMin(30, highScoreCoopGames * 10)
      varietyBonus == IMin(20, Len(suggestions) * 3)
  IN  IF Len(suggestions) = 0 THEN RInt(0)
      ELSE RInt(IMin(100, ownedBonus + qualityBonus + varietyBonus))

\* FinalScore without the co-op bonus term.
FinalScoreNoCoop(baseScore, genreScore, playtimeScore, coopBonus, weights) ==
  VMinRat(RInt(100),
    VMaxRat(RInt(0),
      VAddRat(VScale(playtimeScore, weights.playtimeCompatibility),
              RAdd(RMul(baseScore, weights.commonGames),
                   RMul(genreScore, weights.genreCompatibility)))))

\* Math.min(100, Math.max(0, weighted sum)), before Math.round.
FinalScore(baseScore, genreScore, playtimeScore, coopBonus, weights) ==
  VMinRat(RInt(100),
    VMaxRat(RInt(0),
      VAddRat(VScale(playtimeScore, weights.playtimeCompatibility),
              RAdd(RAdd(RMul(baseScore, weights.commonGames),
                        RMul(genreScore, weights.genreCompatibility)),
                   RMul(coopBonus, weights.coopBonus)))))

(***************************************************************************)
(* CoopGameSuggester                                                       *)
(***************************************************************************)
Suggestion(info, score, reason, owned) ==
  [appId |-> info.appId,
   coopType |-> info.coopType,
   maxPlayers |-> info.maxPlayers,
   compatibilityScore |-> score,
   recommendationReason |-> reason,
   bothOwnGame |-> owned]

extractCoopFromCommonGames(common) ==
  LET coopGames == SelectSeq(common, LAMBDA game : HasCoopGameInfo(game.appId))
  IN  [i \in 1..Len(coopGames) |->
         Suggestion(getCoopGameInfo(coopGames[i].appId),
                    RMin(RInt(95),
                         RAdd(RInt(70), RMul(coopGames[i].compatibilityFactor, RInt(25)))),
                    "both own", TRUE)]

OwnedGameIds(user1Games, user2Games) ==
  {user1Games[i].appId : i \in 1..Len(user1Games)}
    \cup {user2Games[i].appId : i \in 1..Len(user2Games)}

\* The additions made to the genre-weight map, in program order, as
\* <<genre, weight>> pairs.
GenreAdditions(genres, weight) ==
  [i \in 1..Len(genres) |-> [genre |-> genres[i], weight |-> weight]]

RECURSIVE CommonGenreAdditions(_)
CommonGenreAdditions(common) ==
  IF common = << >> THEN << >>
  ELSE GenreAdditions(Head(common).genres, RMul(Head(common).compatibilityFactor, RInt(3)))
         \o CommonGenreAdditions(Tail(common))

RECURSIVE PlaytimeGenreAdditions(_)
PlaytimeGenreAdditions(allGames) ==
  IF allGames = << >> THEN << >>
  ELSE LET game == Head(allGames)
           playtimeWeight == RMin(RInt(2), Rat(game.playtimeForever, 300))
       IN  (IF game.hasGenres /\ game.playtimeForever > 60
              THEN GenreAdditions(game.genres, playtimeWeight) ELSE << >>)
             \o PlaytimeGenreAdditions(Tail(allGames))

analyzePreferredGenres(user1Games, user2Games, common) ==
  CommonGenreAdditions(common) \o PlaytimeGenreAdditions(user1Games \o user2Games)

\* preferredGenres.get(genre) || 0
GenreWeight(preferred, genre) ==
  LET mine == SelectSeq(preferred, LAMBDA a : a.genre = genre)
  IN  SumRat([i \in 1..Len(mine) |-> mine[i].weight])

calculateGenreMatchScore(gameGenres, preferred) ==
  LET totalWeight == SumRat([i \in 1..Len(preferred) |-> preferred[i].weight])
      matchWeight == SumRat([i \in 1..Len(gameGenres) |-> GenreWeight(preferred, gameGenres[i])])
  IN  IF Len(gameGenres) = 0 \/ Len(preferred) = 0 THEN RInt(0)
      ELSE IF totalWeight.n = 0 THEN RInt(0)
      ELSE RDiv(matchWeight, totalWeight)

\* PreferenceLoop that does not skip the games a user owns.
PreferenceLoopAnyOwner(catalog, owned, preferred) ==
  LET matched ==
        SelectSeq(catalog,
                  LAMBDA coopGame :
                    RLt(Rat(3, 10), calculateGenreMatchScore(coopGame.genres, preferred)))
  IN  [i \in 1..Len(matched) |->
         Suggestion(matched[i],
                    RMin(RInt(90),
                         RAdd(RInt(40),
                              RMul(calculateGenreMatchScore(matched[i].genres, preferred),
                                   RInt(50)))),
                    "preference", FALSE)]

\* PreferenceLoop that also takes a genre match of exactly 0.3.
PreferenceLoopInclusive(catalog, owned, preferred) ==
  LET matched ==
        SelectSeq(catalog,
                  LAMBDA coopGame :
                    /\ coopGame.appId \notin owned
                    /\ RLe(Rat(3, 10), calculateGenreMatchScore(coopGame.genres, preferred)))
  IN  [i \in 1..Len(matched) |->
         Suggestion(matched[i],
                    RMin(RInt(90),
                         RAdd(RInt(40),
                              RMul(calculateGenreMatchScore(matched[i].genres, preferred),
                                   RInt(50)))),
                    "preference", FALSE)]

\* The loop over the catalog: one suggestion for every entry that neither
\* user owns and whose genre match exceeds 0.3.
PreferenceLoop(catalog, owned, preferred) ==
  LET matched ==
        SelectSeq(catalog,
                  LAMBDA coopGame :
                    /\ coopGame.appId \notin owned
                    /\ RLt(Rat(3, 10), calculateGenreMatchScore(coopGame.genres, preferred)))
  IN  [i \in 1..Len(matched) |->
         Suggestion(matched[i],
                    RMin(RInt(90),
                         RAdd(RInt(40),
                              RMul(calculateGenreMatchScore(matched[i].genres, preferred),
                                   RInt(50)))),
                    "preference", FALSE)]

generatePreferenceBasedSuggestions(user1Games, user2Games, common) ==
  PreferenceLoop(getAllCoopGames, OwnedGameIds(user1Games, user2Games),
                 analyzePreferredGenres(user1Games, user2Games, common))

\* PopularLoop that skips the owned entries only.
PopularLoopOwnedOnly(popular, owned, excludeSet) ==
  LET kept == SelectSeq(popular, LAMBDA coopGame : coopGame.appId \notin owned)
  IN  [i \in 1..Len(kept) |-> Suggestion(kept[i], RInt(60), "popular", FALSE)]

\* The loop over the popular entries: one suggestion for every entry that
\* is neither owned nor excluded.
PopularLoop(popular, owned, excludeSet) ==
  LET kept ==
        SelectSeq(popular,
                  LAMBDA coopGame :
                    ~(coopGame.appId \in owned \/ coopGame.appId \in excludeSet))
  IN  [i \in 1..Len(kept) |-> Suggestion(kept[i], RInt(60), "popular", FALSE)]

generatePopularGameSuggestions(user1Games, user2Games, excludeAppIds) ==
  PopularLoop(getPopularCoopGames, OwnedGameIds(user1Games, user2Games), Range(excludeAppIds))

NoFilter ==
  [present |-> FALSE, coopType |-> "", maxPlayers |-> 0, genres |-> << >>,
   minCompatibilityScore |-> 0]

\* The filter predicate; an absent field is undefined, which is falsy like
\* the empty string and 0 that stand for it here.
PassesFilter(s, filter) ==
  /\ ~(filter.coopType # "" /\ s.coopType # filter.coopType /\ s.coopType # "both")
  /\ ~(filter.maxPlayers # 0 /\ s.maxPlayers < filter.maxPlayers)
  /\ ~(Len(filter.genres) > 0
         /\ (~HasCoopGameInfo(s.appId)
               \/ Range(filter.genres) \cap Range(getCoopGameInfo(s.appId).genres) = {}))
  /\ ~(filter.minCompatibilityScore # 0
         /\ RLt(s.compatibilityScore, RInt(filter.minCompatibilityScore)))

applyFilter(suggestions, filter) ==
  IF ~filter.present THEN suggestions
  ELSE SelectSeq(suggestions, LAMBDA s : PassesFilter(s, filter))

\* UniqueSuggestions that keeps, for each appId, its last suggestion.
UniqueSuggestionsKeepLast(suggestions) ==
  LET n == Len(suggestions)
      Same(i, j) == suggestions[i].appId = suggestions[j].appId
      firsts == SelectSeq(Indices(suggestions), LAMBDA i : \A j \in 1..(i - 1) : ~Same(i, j))
      Last(i) == CHOOSE j \in i..n : Same(i, j) /\ \A m \in (j + 1)..n : ~Same(i, m)
  IN  [k \in 1..Len(firsts) |-> suggestions[Last(firsts[k])]]

\* The Map keyed by appId after the loop, in insertion order: an appId keeps
\* the place of its first suggestion and the value of the first one with the
\* highest score.
UniqueSuggestions(suggestions) ==
  LET n == Len(suggestions)
      Same(i, j) == suggestions[i].appId = suggestions[j].appId
      Score(i) == suggestions[i].compatibilityScore
      firsts == SelectSeq(Indices(suggestions), LAMBDA i : \A j \in 1..(i - 1) : ~Same(i, j))
      \* the entry that the key first set at index i holds after the loop: a
      \* later entry replaces the held one only with a strictly higher score
      Held(i) ==
        CHOOSE j \in i..n :
          /\ Same(i, j)
          /\ \A m \in i..n : Same(i, m) => RLe(Score(m), Score(j))
          /\ \A m \in i..(j - 1) : Same(i, m) => RLt(Score(m), Score(j))
  IN  [k \in 1..Len(firsts) |-> suggestions[Held(firsts[k])]]

\* removeDuplicatesAndSort that only sorts.
removeDuplicatesAndSortOnlySort(suggestions) ==
  SortDescBy(suggestions, [i \in 1..Len(suggestions) |-> suggestions[i].compatibilityScore])

removeDuplicatesAndSort(suggestions) ==
  LET unique == UniqueSuggestions(suggestions)
  IN  SortDescBy(unique, [i \in 1..Len(unique) |-> unique[i].compatibilityScore])

generateSuggestions(common, user1Games, user2Games, filter, maxSuggestions) ==
  LET coopCommonGames == extractCoopFromCommonGames(common)
      preferenceBased == generatePreferenceBasedSuggestions(user1Games, user2Games, common)
      soFar == coopCommonGames \o preferenceBased
      popular == generatePopularGameSuggestions(user1Games, user2Games,
                                                [i \in 1..Len(soFar) |-> soFar[i].appId])
      filtered == applyFilter(soFar \o popular, filter)
  IN  Slice0(removeDuplicatesAndSort(filtered), maxSuggestions)

(***************************************************************************)
(* Recommendations                                                         *)
(***************************************************************************)
calculateRecommendationScore(game, common) ==
  LET playtimeHours == Rat(game.playtimeForever, 60)
      commonGenres == UNION {Range(common[i].genres) : i \in 1..Len(common)}
      matchingGenres == SelectSeq(GenresOrEmpty(game), LAMBDA g : g \in commonGenres)
      score == RAdd(RAdd(RInt(50), RMin(RInt(30), RDiv(playtimeHours, RInt(10)))),
                    RInt(IF game.hasGenres THEN Len(matchingGenres) * 5 ELSE 0))
  IN  RMin(RInt(100), RMax(RInt(0), score))

RecommendationOf(game, common) ==
  [appId |-> game.appId,
   name |-> game.name,
   recommendationScore |-> calculateRecommendationScore(game, common),
   genres |-> GenresOrEmpty(game),
   estimatedPlaytime |-> game.playtimeForever]

\* generateRecommendations without the per-user slices.
generateRecommendationsUnsliced(games1, games2, common, config) ==
  LET commonGameIds == {common[i].appId : i \in 1..Len(common)}
      Eligible(game) ==
        game.appId \notin commonGameIds /\ game.playtimeForever >= config.minPlaytimeForAnalysis
      picked == SelectSeq(games1, Eligible) \o SelectSeq(games2, Eligible)
      recs == [i \in 1..Len(picked) |-> RecommendationOf(picked[i], common)]
  IN  Slice0(SortDescBy(recs, [i \in 1..Len(recs) |-> recs[i].recommendationScore]),
             config.maxRecommendations)

\* generateRecommendations giving the first user the slot left by an odd cap.
generateRecommendationsExtraSlot(games1, games2, common, config) ==
  LET commonGameIds == {common[i].appId : i \in 1..Len(common)}
      Eligible(game) ==
        game.appId \notin commonGameIds /\ game.playtimeForever >= config.minPlaytimeForAnalysis
      user1OnlyGames == SelectSeq(games1, Eligible)
      user2OnlyGames == SelectSeq(games2, Eligible)
      half == config.maxRecommendations \div 2
      picked == Slice0(user1OnlyGames, config.maxRecommendations - half)
                  \o Slice0(user2OnlyGames, half)
      recs == [i \in 1..Len(picked) |-> RecommendationOf(picked[i], common)]
  IN  Slice0(SortDescBy(recs, [i \in 1..Len(recs) |-> recs[i].recommendationScore]),
             config.maxRecommendations)

generateRecommendations(games1, games2, common, config) ==
  LET commonGameIds == {common[i].appId : i \in 1..Len(common)}
      Eligible(game) ==
        game.appId \notin commonGameIds /\ game.playtimeForever >= config.minPlaytimeForAnalysis
      user1OnlyGames == SelectSeq(games1, Eligible)
      user2OnlyGames == SelectSeq(games2, Eligible)
      half == config.maxRecommendations \div 2
      picked == Slice0(user1OnlyGames, half) \o Slice0(user2OnlyGames, half)
      recs == [i \in 1..Len(picked) |-> RecommendationOf(picked[i], common)]
  IN  Slice0(SortDescBy(recs, [i \in 1..Len(recs) |-> recs[i].recommendationScore]),
             config.maxRecommendations)

(***************************************************************************)
(* Inputs of the model                                                     *)
(***************************************************************************)
MaxGames == 2

MaxPrivateGames == 1

Game(appId, name, playtime, hasGenres, genres) ==
  [appId |-> appId, name |-> name, playtimeForever |-> playtime,
   hasGenres |-> hasGenres, genres |-> genres]

\* Entries a library may hold: a catalog game (620) in two copies, one played
\* and with genre data, one never played and without; and two games outside
\* the catalog, one played long and one played exactly the default threshold.
GamePool ==
  { Game(620, "Portal 2", 120, TRUE, <<"Puzzle", "Co-op">>),
    Game(620, "Portal 2", 0, FALSE, << >>),
    Game(10, "Counter-Strike", 600, TRUE, <<"Action", "FPS">>),
    Game(70, "Half-Life", 30, TRUE, <<"Action">>) }

\* A missing (null or undefined) library argument.
NullLibrary == [present |-> FALSE, isPublic |-> FALSE, games |-> << >>]

Library(isPublic, games) == [present |-> TRUE, isPublic |-> isPublic, games |-> games]

PublicLibraries == {Library(TRUE, g) : g \in SeqsUpTo(GamePool, MaxGames)}

PrivateLibraries == {Library(FALSE, g) : g \in SeqsUpTo(GamePool, MaxPrivateGames)}

Libraries == {NullLibrary} \cup PublicLibraries \cup PrivateLibraries

CoopFilters ==
  { NoFilter,
    [present |-> TRUE, coopType |-> "local", maxPlayers |-> 4, genres |-> << >>,
     minCompatibilityScore |-> 0],
    [present |-> TRUE, coopType |-> "", maxPlayers |-> 0, genres |-> <<"Puzzle", "FPS">>,
     minCompatibilityScore |-> 65] }

(***************************************************************************)
(* State                                                                   *)
(***************************************************************************)
VARIABLES
  config,                \* this.config of the analyzer
  library1, library2,    \* arguments of the analyze call in progress
  coopFilter,
  pc,                    \* position inside analyze
  steps,                 \* the steps of analyze run so far, in order
  commonGames,           \* locals of analyze
  genreCompatibility,
  playtimeCompatibility,
  coopSuggestions,
  scores,
  recommendations,
  result,                \* the returned CompatibilityResult
  thrown,                \* the thrown error
  probe,                 \* a direct call of one private method: arguments and return value
  history,               \* an earlier analyze call on the same analyzer: arguments and outcome
  request,               \* a fetchWithRetry request of the SteamApiService
  cache,                 \* CacheManager.cache
  pendingRequests,       \* CacheManager.pendingRequests
  promises,              \* the promises created by getOrSet, in creation order
  calls,                 \* what each getOrSet call returned, in call order
  now                    \* Date.now()

vars ==
  <<config, library1, library2, coopFilter, pc, steps, commonGames, genreCompatibility,
    playtimeCompatibility, coopSuggestions, scores, recommendations, result, thrown, probe,
    history, request, cache, pendingRequests, promises, calls, now>>

\* The state of the SteamApiService and of its cache manager.
service == <<request, cache, pendingRequests, promises, calls, now>>

NoPlaytimeCompatibility ==
  [averagePlaytimeDifference |-> RInt(0), playtimeCorrelation |-> Val(RInt(0)),
   similarPlaytimeGames |-> 0, totalCommonPlaytime |-> 0]

NoScores ==
  [baseScore |-> RInt(0), genreScore |-> RInt(0), playtimeScore |-> Val(RInt(0)),
   coopBonus |-> RInt(0), finalScore |-> Val(RInt(0))]

NoResult == [present |-> FALSE]

NoProbe == [fn |-> "none"]

NoHistory == [present |-> FALSE]

\* No request issued yet.
NoRequest == [pc |-> "idle"]

\* new Map() for this.cache, and the statistics at zero.
EmptyCache == [entries |-> << >>, stats |-> [hits |-> 0, misses |-> 0, evictions |-> 0]]

\* A cache manager just constructed, and a service that has issued nothing.
InitService ==
  /\ request = NoRequest
  /\ cache = EmptyCache
  /\ pendingRequests = << >>
  /\ promises = << >>
  /\ calls = << >>
  /\ now = 0

Init ==
  /\ config = DefaultConfig
  /\ library1 = NullLibrary
  /\ library2 = NullLibrary
  /\ coopFilter = NoFilter
  /\ pc = "idle"
  /\ steps = << >>
  /\ commonGames = << >>
  /\ genreCompatibility = << >>
  /\ playtimeCompatibility = NoPlaytimeCompatibility
  /\ coopSuggestions = << >>
  /\ scores = NoScores
  /\ recommendations = << >>
  /\ result = NoResult
  /\ thrown = NoError
  /\ probe = NoProbe
  /\ history = NoHistory
  /\ InitService

locals ==
  <<commonGames, genreCompatibility, playtimeCompatibility, coopSuggestions, scores,
    recommendations>>

args == <<library1, library2, coopFilter>>

(***************************************************************************)
(* analyze, statement by statement                                         *)
(***************************************************************************)
\* A caller invokes analyze(library1, library2, ..., coopFilter).
Call(lib1, lib2, filter) ==
  /\ pc = "idle"
  /\ library1' = lib1
  /\ library2' = lib2
  /\ coopFilter' = filter
  /\ pc' = "validateInputs"
  /\ UNCHANGED <<service, history, config, probe, steps, locals, result, thrown>>

\* analyze with the validation placed after the common-game detection.
ValidateThrowsAfterCommonGames ==
  /\ pc = "validateInputs"
  /\ validateInputs(library1, library2) # NoError
  /\ commonGames' =
       findCommonGames(library1.games, library2.games, config.minPlaytimeForAnalysis)
  /\ thrown' = validateInputs(library1, library2)
  /\ steps' = steps \o <<"findCommonGames", "validateInputs">>
  /\ pc' = "failed"
  /\ UNCHANGED <<service, history, config, probe, args, genreCompatibility, playtimeCompatibility,
                 coopSuggestions, scores, recommendations, result>>

\* this.validateInputs(library1, library2) throws: analyze ends there.
ValidateThrows ==
  /\ pc = "validateInputs"
  /\ validateInputs(library1, library2) # NoError
  /\ thrown' = validateInputs(library1, library2)
  /\ steps' = Append(steps, "validateInputs")
  /\ pc' = "failed"
  /\ UNCHANGED <<service, history, config, probe, args, locals, result>>

ValidateReturns ==
  /\ pc = "validateInputs"
  /\ validateInputs(library1, library2) = NoError
  /\ steps' = Append(steps, "validateInputs")
  /\ pc' = "findCommonGames"
  /\ UNCHANGED <<service, history, config, probe, args, locals, result, thrown>>

FindCommonGames ==
  /\ pc = "findCommonGames"
  /\ commonGames' =
       findCommonGames(library1.games, library2.games, config.minPlaytimeForAnalysis)
  /\ steps' = Append(steps, "findCommonGames")
  /\ pc' = "analyzeGenreCompatibility"
  /\ UNCHANGED <<service, history, config, probe, args, genreCompatibility, playtimeCompatibility, coopSuggestions,
                 scores, recommendations, result, thrown>>

AnalyzeGenreCompatibility ==
  /\ pc = "analyzeGenreCompatibility"
  /\ genreCompatibility' =
       analyzeGenreCompatibility(library1.games, library2.games, config.minPlaytimeForAnalysis)
  /\ steps' = Append(steps, "analyzeGenreCompatibility")
  /\ pc' = "calculatePlaytimeCompatibility"
  /\ UNCHANGED <<service, history, config, probe, args, commonGames, playtimeCompatibility, coopSuggestions,
                 scores, recommendations, result, thrown>>

CalculatePlaytimeCompatibility ==
  /\ pc = "calculatePlaytimeCompatibility"
  /\ playtimeCompatibility' = calculatePlaytimeCompatibility(commonGames)
  /\ steps' = Append(steps, "calculatePlaytimeCompatibility")
  /\ pc' = "generateSuggestions"
  /\ UNCHANGED <<service, history, config, probe, args, commonGames, genreCompatibility, coopSuggestions,
                 scores, recommendations, result, thrown>>

GenerateSuggestions ==
  /\ pc = "generateSuggestions"
  /\ coopSuggestions' =
       generateSuggestions(commonGames, library1.games, library2.games, coopFilter,
                           config.maxCoopSuggestions)
  /\ steps' = Append(steps, "generateSuggestions")
  /\ pc' = "calculateScores"
  /\ UNCHANGED <<service, history, config, probe, args, commonGames, genreCompatibility, playtimeCompatibility,
                 scores, recommendations, result, thrown>>

ComponentScores ==
  LET baseScore ==
        calculateBaseScore(commonGames, Len(library1.games), Len(library2.games))
      genreScore == calculateGenreScore(genreCompatibility)
      playtimeScore == calculatePlaytimeScore(playtimeCompatibility)
      coopBonus == calculateCoopBonus(coopSuggestions)
  IN  [baseScore |-> baseScore,
       genreScore |-> genreScore,
       playtimeScore |-> playtimeScore,
       coopBonus |-> coopBonus,
       finalScore |-> FinalScore(baseScore, genreScore, playtimeScore, coopBonus, config.weights)]

CalculateScores ==
  /\ pc = "calculateScores"
  /\ scores' = ComponentScores
  /\ steps' = Append(steps, "calculateScores")
  /\ pc' = "generateRecommendations"
  /\ UNCHANGED <<service, history, config, probe, args, commonGames, genreCompatibility, playtimeCompatibility,
                 coopSuggestions, recommendations, result, thrown>>

\* generateRecommendations taking the first user's picks out of games1 itself
\* (splice in place of filter and slice).
GenerateRecommendationsInPlace ==
  /\ pc = "generateRecommendations"
  /\ recommendations' =
       generateRecommendations(library1.games, library2.games, commonGames, config)
  /\ library1' =
       [library1 EXCEPT
          !.games = SelectSeq(library1.games,
                              LAMBDA game :
                                \/ game.appId \in {commonGames[i].appId : i \in 1..Len(commonGames)}
                                \/ game.playtimeForever < config.minPlaytimeForAnalysis)]
  /\ steps' = Append(steps, "generateRecommendations")
  /\ pc' = "return"
  /\ UNCHANGED <<service, history, config, probe, library2, coopFilter, commonGames,
                 genreCompatibility, playtimeCompatibility, coopSuggestions, scores, result,
                 thrown>>

GenerateRecommendations ==
  /\ pc = "generateRecommendations"
  /\ recommendations' =
       generateRecommendations(library1.games, library2.games, commonGames, config)
  /\ steps' = Append(steps, "generateRecommendations")
  /\ pc' = "return"
  /\ UNCHANGED <<service, history, config, probe, args, commonGames, genreCompatibility, playtimeCompatibility,
                 coopSuggestions, scores, result, thrown>>

\* The score returned without Math.round.
RoundedScoreUnrounded(finalScore) == finalScore

\* Math.round(finalScore), as a value.
RoundedScore(finalScore) == Val(RInt(MathRound(finalScore)))

\* A return that also zeroes the analyzer's recommendation cap.
ReturnClearingCap ==
  /\ pc = "return"
  /\ result' =
       [present |-> TRUE,
        score |-> RoundedScore(scores.finalScore),
        commonGames |-> commonGames,
        genreCompatibility |-> genreCompatibility,
        playtimeCompatibility |-> playtimeCompatibility,
        recommendations |-> recommendations,
        coopSuggestions |-> coopSuggestions]
  /\ config' = [config EXCEPT !.maxRecommendations = 0]
  /\ pc' = "done"
  /\ UNCHANGED <<service, history, probe, args, steps, locals, thrown>>

Return ==
  /\ pc = "return"
  /\ result' =
       [present |-> TRUE,
        score |-> RoundedScore(scores.finalScore),
        commonGames |-> commonGames,
        genreCompatibility |-> genreCompatibility,
        playtimeCompatibility |-> playtimeCompatibility,
        recommendations |-> recommendations,
        coopSuggestions |-> coopSuggestions]
  /\ pc' = "done"
  /\ UNCHANGED <<service, history, config, probe, args, steps, locals, thrown>>

\* Any caller, any arguments.
Invoke ==
  /\ pc = "idle"
  /\ \E lib1 \in Libraries, lib2 \in Libraries, filter \in CoopFilters :
       Call(lib1, lib2, filter)

Next ==
  \/ Invoke
  \/ ValidateThrows
  \/ ValidateReturns
  \/ FindCommonGames
  \/ AnalyzeGenreCompatibility
  \/ CalculatePlaytimeCompatibility
  \/ GenerateSuggestions
  \/ CalculateScores
  \/ GenerateRecommendations
  \/ Return

Spec == Init /\ [][Next]_vars

(***************************************************************************)
(* Several analyze calls, one after the other, on one analyzer.  One ended *)
(* call is remembered with its arguments and outcome.                      *)
(***************************************************************************)
RepeatLibraries ==
  { NullLibrary,
    Library(FALSE, << >>),
    Library(TRUE, << >>),
    Library(TRUE, <<Game(620, "Portal 2", 120, TRUE, <<"Puzzle", "Co-op">>),
                    Game(10, "Counter-Strike", 600, TRUE, <<"Action", "FPS">>)>>),
    Library(TRUE, <<Game(70, "Half-Life", 30, TRUE, <<"Action">>),
                    Game(620, "Portal 2", 0, FALSE, << >>)>>) }

RepeatFilters ==
  { NoFilter,
    [present |-> TRUE, coopType |-> "", maxPlayers |-> 0, genres |-> <<"Puzzle", "FPS">>,
     minCompatibilityScore |-> 65] }

\* The calls counted after the remembered one: 0, 1, or 2 for two and more.
MaxLaterCalls == 2

InvokeRepeat ==
  /\ pc = "idle"
  /\ \E lib1 \in RepeatLibraries, lib2 \in RepeatLibraries, filter \in RepeatFilters :
       Call(lib1, lib2, filter)

\* The call has returned or thrown and its locals are gone; the caller may
\* keep what it got, and the analyzer is ready for the next call.
Again ==
  /\ pc \in {"done", "failed"}
  /\ \E keep \in BOOLEAN :
       history' =
         IF history.present
           THEN [history EXCEPT !.later = IMin(MaxLaterCalls, history.later + 1)]
         ELSE IF keep
           THEN [present |-> TRUE, library1 |-> library1, library2 |-> library2,
                 coopFilter |-> coopFilter, result |-> result, thrown |-> thrown, later |-> 0]
         ELSE history
  /\ pc' = "idle"
  /\ steps' = << >>
  /\ commonGames' = << >>
  /\ genreCompatibility' = << >>
  /\ playtimeCompatibility' = NoPlaytimeCompatibility
  /\ coopSuggestions' = << >>
  /\ scores' = NoScores
  /\ recommendations' = << >>
  /\ result' = NoResult
  /\ thrown' = NoError
  /\ UNCHANGED <<service, config, probe, args>>

NextRepeat ==
  \/ InvokeRepeat
  \/ ValidateThrows
  \/ ValidateReturns
  \/ FindCommonGames
  \/ AnalyzeGenreCompatibility
  \/ CalculatePlaytimeCompatibility
  \/ GenerateSuggestions
  \/ CalculateScores
  \/ GenerateRecommendations
  \/ Return
  \/ Again

SpecRepeat == Init /\ [][NextRepeat]_vars

(***************************************************************************)
(* calculateGameCompatibilityFactor on its own: an analyzer constructed    *)
(* with any threshold, the method applied to any two playtimes.            *)
(***************************************************************************)
FactorPlaytimes == {0, 1, 29, 30, 31, 60, 120, 240, 600, 1200, 3000}

FactorThresholds == {0, 1, 30, 60, 601}

InitFactor ==
  /\ \E t \in FactorThresholds :
       config = [DefaultConfig EXCEPT !.minPlaytimeForAnalysis = t]
  /\ library1 = NullLibrary
  /\ library2 = NullLibrary
  /\ coopFilter = NoFilter
  /\ pc = "probe"
  /\ steps = << >>
  /\ commonGames = << >>
  /\ genreCompatibility = << >>
  /\ playtimeCompatibility = NoPlaytimeCompatibility
  /\ coopSuggestions = << >>
  /\ scores = NoScores
  /\ recommendations = << >>
  /\ result = NoResult
  /\ thrown = NoError
  /\ probe = NoProbe
  /\ history = NoHistory
  /\ InitService

ProbeFactor(playtime1, playtime2) ==
  /\ pc = "probe"
  /\ probe = NoProbe
  /\ probe' =
       [fn |-> "calculateGameCompatibilityFactor",
        playtime1 |-> playtime1,
        playtime2 |-> playtime2,
        value |-> calculateGameCompatibilityFactor(playtime1, playtime2,
                                                   config.minPlaytimeForAnalysis)]
  /\ UNCHANGED <<service, history, config, args, pc, steps, locals, result, thrown>>

NextFactor == \E p1 \in FactorPlaytimes, p2 \in FactorPlaytimes : ProbeFactor(p1, p2)

SpecFactor == InitFactor /\ [][NextFactor]_vars

(***************************************************************************)
(* analyzeGenreCompatibility on its own, for a first library of up to      *)
(* MaxGenreGames games and the thresholds of FactorThresholds.             *)
(***************************************************************************)
MaxGenreGames == 2

\* Games a library may hold here: played long, played exactly 30 minutes,
\* played 45 minutes, never played, and one without genre data.
GenrePool ==
  { Game(10, "Counter-Strike", 600, TRUE, <<"Action", "FPS">>),
    Game(70, "Half-Life", 30, TRUE, <<"Action">>),
    Game(620, "Portal 2", 45, TRUE, <<"Puzzle", "Co-op">>),
    Game(400, "Portal", 0, TRUE, <<"Puzzle">>),
    Game(4000, "Garry's Mod", 900, FALSE, << >>) }

\* The second user's library.
GenreOtherLibraries ==
  { << >>,
    << Game(10, "Counter-Strike", 600, TRUE, <<"Action", "FPS">>) >>,
    << Game(10, "Counter-Strike", 600, TRUE, <<"Action", "FPS">>),
       Game(70, "Half-Life", 30, TRUE, <<"Action">>) >>,
    << Game(620, "Portal 2", 45, TRUE, <<"Puzzle", "Co-op">>),
       Game(4000, "Garry's Mod", 900, FALSE, << >>) >> }

\* Of each game of a library: <<playtimeForever, has genre data, genres>>.
PlayedGenres(games) ==
  [i \in 1..Len(games) |->
     <<games[i].playtimeForever, games[i].hasGenres, games[i].genres>>]

ProbeGenres(games1, games2) ==
  /\ pc = "probe"
  /\ probe = NoProbe
  /\ probe' =
       [fn |-> "analyzeGenreCompatibility",
        games1 |-> PlayedGenres(games1),
        games2 |-> PlayedGenres(games2),
        value |-> analyzeGenreCompatibility(games1, games2, config.minPlaytimeForAnalysis)]
  /\ UNCHANGED <<service, history, config, args, pc, steps, locals, result, thrown>>

NextGenres ==
  \E games1 \in SeqsUpTo(GenrePool, MaxGenreGames),
     games2 \in GenreOtherLibraries :
    ProbeGenres(games1, games2)

SpecGenres == InitFactor /\ [][NextGenres]_vars

(***************************************************************************)
(* The component scores on their own, for libraries larger than those of   *)
(* Spec: the two users share the games 1..shared, whose playtimes move     *)
(* linearly with the game's place, and each owns some games alone.         *)
(***************************************************************************)
MaxShared == 12

\* Numbers of games owned alone.
ProbeExtras == {0, 5}

\* Playtime of shared game i is at + i * step, for each user.
BaseShapes ==
  { [at1 |-> 30, step1 |-> 0, at2 |-> 30, step2 |-> 0],
    [at1 |-> 120, step1 |-> 0, at2 |-> 0, step2 |-> 0],
    [at1 |-> 0, step1 |-> 60, at2 |-> 0, step2 |-> 60],
    [at1 |-> 600, step1 |-> 0, at2 |-> 1200, step2 |-> 0],
    [at1 |-> 0, step1 |-> 60, at2 |-> 0, step2 |-> 120] }

\* Shapes whose playtimes fall for one user while they rise for the other,
\* a shape whose playtimes differ by exactly 30% of the larger one, and games
\* that neither user played.
PlaytimeShapes ==
  BaseShapes \cup
  { [at1 |-> 100, step1 |-> 1, at2 |-> 120, step2 |-> -1],
    [at1 |-> 10, step1 |-> 50, at2 |-> 700, step2 |-> -40],
    [at1 |-> 70, step1 |-> 70, at2 |-> 100, step2 |-> 100],
    [at1 |-> 0, step1 |-> 0, at2 |-> 0, step2 |-> 0] }

\* A library of the shared games followed by `extra` games with
\* identifiers from `base` on, played 45 minutes each.
ProbeGames(shared, at, step, extra, base) ==
  [i \in 1..(shared + extra) |->
     IF i <= shared THEN Game(i, "shared", at + i * step, FALSE, << >>)
     ELSE Game(base + i, "alone", 45, FALSE, << >>)]

ProbeGames1(shared, shape, extra) == ProbeGames(shared, shape.at1, shape.step1, extra, 1000)

ProbeGames2(shared, shape, extra) == ProbeGames(shared, shape.at2, shape.step2, extra, 2000)

ProbeBaseScore(games1, games2) ==
  /\ pc = "probe"
  /\ probe = NoProbe
  /\ Len(games1) + Len(games2) > 0
  /\ LET common == findCommonGames(games1, games2, config.minPlaytimeForAnalysis)
     IN  probe' =
           [fn |-> "calculateBaseScore",
            common |-> common,
            totalGames1 |-> Len(games1),
            totalGames2 |-> Len(games2),
            value |-> calculateBaseScore(common, Len(games1), Len(games2))]
  /\ UNCHANGED <<service, history, config, args, pc, steps, locals, result, thrown>>

ProbePlaytimeScore(games1, games2) ==
  /\ pc = "probe"
  /\ probe = NoProbe
  /\ LET common == findCommonGames(games1, games2, config.minPlaytimeForAnalysis)
         playtime == calculatePlaytimeCompatibility(common)
     IN  probe' =
           [fn |-> "calculatePlaytimeScore",
            playtimeCompatibility |-> playtime,
            value |-> calculatePlaytimeScore(playtime)]
  /\ UNCHANGED <<service, history, config, args, pc, steps, locals, result, thrown>>

\* The two playtimes of each common game, and the statistics returned.
PlaytimeStatistics(common) ==
  [fn |-> "calculatePlaytimeCompatibility",
   playtimes |->
     [i \in 1..Len(common) |-> <<common[i].user1Playtime, common[i].user2Playtime>>],
   value |-> calculatePlaytimeCompatibility(common)]

ProbePlaytimeCompatibility(games1, games2) ==
  /\ pc = "probe"
  /\ probe = NoProbe
  /\ probe' = PlaytimeStatistics(findCommonGames(games1, games2,
                                                 config.minPlaytimeForAnalysis))
  /\ UNCHANGED <<service, history, config, args, pc, steps, locals, result, thrown>>

NextScores ==
  \/ \E shared \in 0..MaxShared, shape \in BaseShapes, extra1 \in ProbeExtras, extra2 \in ProbeExtras :
       ProbeBaseScore(ProbeGames1(shared, shape, extra1), ProbeGames2(shared, shape, extra2))
  \/ \E shared \in 0..MaxShared, shape \in PlaytimeShapes :
       ProbePlaytimeScore(ProbeGames1(shared, shape, 0), ProbeGames2(shared, shape, 0))
  \/ \E shared \in 0..MaxShared, shape \in PlaytimeShapes :
       ProbePlaytimeCompatibility(ProbeGames1(shared, shape, 0), ProbeGames2(shared, shape, 0))

SpecScores == InitFactor /\ [][NextScores]_vars

(***************************************************************************)
(* generateRecommendations on its own, for recommendation caps from 0 to   *)
(* MaxCap and libraries with up to MaxAlone games owned by one user only.  *)
(***************************************************************************)
MaxCap == 5

MaxAlone == 4

RecThresholds == {30, 60}

\* Playtimes and genres of the games owned alone, by place.
RecPlaytimes == <<600, 45, 10, 6000, 30, 0>>

RecGenres == << <<"Action">>, << >>, <<"Action", "Puzzle">> >>

\* `shared` games that both users own, then `alone` games with identifiers
\* from `base` on.
RecGames(shared, alone, base) ==
  [i \in 1..(shared + alone) |->
     IF i <= shared THEN Game(i, "shared", 120 * i, TRUE, <<"Action", "Puzzle">>)
     ELSE Game(base + i, "alone", RecPlaytimes[((base + i) % Len(RecPlaytimes)) + 1],
               i % 2 = 0, RecGenres[(i % Len(RecGenres)) + 1])]

AppIds(games) == {games[i].appId : i \in 1..Len(games)}

InitRecommendations ==
  /\ \E t \in RecThresholds, m \in 0..MaxCap :
       config = [DefaultConfig EXCEPT !.minPlaytimeForAnalysis = t,
                                      !.maxRecommendations = m]
  /\ library1 = NullLibrary
  /\ library2 = NullLibrary
  /\ coopFilter = NoFilter
  /\ pc = "probe"
  /\ steps = << >>
  /\ commonGames = << >>
  /\ genreCompatibility = << >>
  /\ playtimeCompatibility = NoPlaytimeCompatibility
  /\ coopSuggestions = << >>
  /\ scores = NoScores
  /\ recommendations = << >>
  /\ result = NoResult
  /\ thrown = NoError
  /\ probe = NoProbe
  /\ history = NoHistory
  /\ InitService

\* The games of one library that the filter of generateRecommendations keeps,
\* each as <<appId, recommendation score>>.
EligibleScores(games, common) ==
  LET commonGameIds == {common[i].appId : i \in 1..Len(common)}
  IN  {<<games[i].appId, calculateRecommendationScore(games[i], common)>> :
         i \in {j \in 1..Len(games) :
                  /\ games[j].appId \notin commonGameIds
                  /\ games[j].playtimeForever >= config.minPlaytimeForAnalysis}}

ProbeRecommendations(games1, games2) ==
  /\ pc = "probe"
  /\ probe = NoProbe
  /\ LET common == findCommonGames(games1, games2, config.minPlaytimeForAnalysis)
     IN  probe' =
           [fn |-> "generateRecommendations",
            owned1 |-> AppIds(games1),
            owned2 |-> AppIds(games2),
            eligible1 |-> EligibleScores(games1, common),
            eligible2 |-> EligibleScores(games2, common),
            common |-> common,
            value |-> generateRecommendations(games1, games2, common, config)]
  /\ UNCHANGED <<service, history, config, args, pc, steps, locals, result, thrown>>

NextRecommendations ==
  \E shared \in 0..2, alone1 \in 0..MaxAlone, alone2 \in 0..MaxAlone :
    ProbeRecommendations(RecGames(shared, alone1, 1000), RecGames(shared, alone2, 2000))

SpecRecommendations == InitRecommendations /\ [][NextRecommendations]_vars

(***************************************************************************)
(* generateSuggestions on its own, source by source, for a suggester built *)
(* with the default cap or with a cap as large as the catalog.             *)
(***************************************************************************)
MaxSuggestGames == 2

\* Games a library may hold here: two catalog games, and a long-played game
\* each of whose three genres is one of the four genres of some catalog
\* entries.
SuggestPool ==
  { Game(620, "Portal 2", 120, TRUE, <<"Puzzle", "Co-op">>),
    Game(550, "Left 4 Dead 2", 900, TRUE, <<"Action", "Zombies">>),
    Game(4000, "Garry's Mod", 900, TRUE, <<"Sandbox", "Indie", "Simulation">>) }

SuggestFilters ==
  { NoFilter,
    [present |-> TRUE, coopType |-> "", maxPlayers |-> 0, genres |-> << >>,
     minCompatibilityScore |-> 60] }

InitSuggestions ==
  /\ \E cap \in {DefaultConfig.maxCoopSuggestions, Len(coopGamesDatabase)} :
       config = [DefaultConfig EXCEPT !.maxCoopSuggestions = cap]
  /\ library1 = NullLibrary
  /\ library2 = NullLibrary
  /\ coopFilter = NoFilter
  /\ pc = "probe"
  /\ steps = << >>
  /\ commonGames = << >>
  /\ genreCompatibility = << >>
  /\ playtimeCompatibility = NoPlaytimeCompatibility
  /\ coopSuggestions = << >>
  /\ scores = NoScores
  /\ recommendations = << >>
  /\ result = NoResult
  /\ thrown = NoError
  /\ probe = NoProbe
  /\ history = NoHistory
  /\ InitService

\* What each of the three sources of generateSuggestions returns, and the
\* number of distinct games left after the filter.
SuggestionSources(common, user1Games, user2Games, filter) ==
  LET coopCommonGames == extractCoopFromCommonGames(common)
      preferenceBased == generatePreferenceBasedSuggestions(user1Games, user2Games, common)
      soFar == coopCommonGames \o preferenceBased
      popular == generatePopularGameSuggestions(user1Games, user2Games,
                                                [i \in 1..Len(soFar) |-> soFar[i].appId])
      filtered == applyFilter(soFar \o popular, filter)
  IN  [coopCommonGames |-> coopCommonGames,
       preferenceBased |-> preferenceBased,
       popular |-> popular,
       candidates |-> Cardinality({filtered[i].appId : i \in 1..Len(filtered)})]

ProbeSuggestions(user1Games, user2Games, filter) ==
  /\ pc = "probe"
  /\ probe = NoProbe
  /\ probe' =
       [fn |-> "generateSuggestions",
        owned |-> OwnedGameIds(user1Games, user2Games),
        filtered |-> filter.present,
        sources |->
          SuggestionSources(findCommonGames(user1Games, user2Games,
                                            config.minPlaytimeForAnalysis),
                            user1Games, user2Games, filter),
        value |->
          generateSuggestions(findCommonGames(user1Games, user2Games,
                                              config.minPlaytimeForAnalysis),
                              user1Games, user2Games, filter, config.maxCoopSuggestions)]
  /\ UNCHANGED <<service, history, config, args, pc, steps, locals, result, thrown>>

NextSuggestions ==
  \E user1Games \in SeqsUpTo(SuggestPool, MaxSuggestGames),
     user2Games \in SeqsUpTo(SuggestPool, MaxSuggestGames),
     filter \in SuggestFilters :
    ProbeSuggestions(user1Games, user2Games, filter)

SpecSuggestions == InitSuggestions /\ [][NextSuggestions]_vars

(***************************************************************************)
(* generatePreferenceBasedSuggestions on its own, for libraries of up to   *)
(* MaxPreferenceGames games each.                                          *)
(***************************************************************************)
MaxPreferenceGames == 2

\* Games a library may hold here: a catalog game; two games outside the
\* catalog whose playtime weights are 0.6 and 1.4, so that a catalog game
\* carrying the genre of the first only has a genre match of exactly 0.3; and
\* a game played too little to weigh.
PreferencePool ==
  { Game(620, "Portal 2", 120, TRUE, <<"Puzzle", "Co-op">>),
    Game(10, "Zombie game", 180, TRUE, <<"Zombies">>),
    Game(20, "Racing game", 420, TRUE, <<"Racing">>),
    Game(30, "Horror demo", 45, TRUE, <<"Horror">>) }

\* The genre-weight map: its keys in insertion order, each with its weight.
GenreWeights(preferred) ==
  LET keys == Distinct([i \in 1..Len(preferred) |-> preferred[i].genre])
  IN  [k \in 1..Len(keys) |-> <<keys[k], GenreWeight(preferred, keys[k])>>]

ProbePreference(user1Games, user2Games) ==
  /\ pc = "probe"
  /\ probe = NoProbe
  /\ LET common == findCommonGames(user1Games, user2Games, config.minPlaytimeForAnalysis)
     IN  probe' =
           [fn |-> "generatePreferenceBasedSuggestions",
            owned |-> OwnedGameIds(user1Games, user2Games),
            weights |-> GenreWeights(analyzePreferredGenres(user1Games, user2Games, common)),
            value |-> generatePreferenceBasedSuggestions(user1Games, user2Games, common)]
  /\ UNCHANGED <<service, history, config, args, pc, steps, locals, result, thrown>>

NextPreference ==
  \E user1Games \in SeqsUpTo(PreferencePool, MaxPreferenceGames),
     user2Games \in SeqsUpTo(PreferencePool, MaxPreferenceGames) :
    ProbePreference(user1Games, user2Games)

SpecPreference == InitSuggestions /\ [][NextPreference]_vars

(***************************************************************************)
(* generateSuggestions on its own: the merge of its three sources, the     *)
(* filter, the removal of duplicates, the sort and the cut, for a first     *)
(* library of up to MaxMergeGames games.                                   *)
(***************************************************************************)
MaxMergeGames == 2

\* Games a library may hold here: a catalog game in two copies with different
\* playtimes, so that the common games hold one appId twice with different
\* factors, and a second catalog game.
MergePool ==
  { Game(620, "Portal 2", 120, TRUE, <<"Puzzle", "Co-op">>),
    Game(620, "Portal 2", 900, TRUE, <<"Puzzle", "Co-op">>),
    Game(550, "Left 4 Dead 2", 900, TRUE, <<"Action", "Zombies">>) }

\* The second user's library: empty, one copy of the first catalog game, or
\* the other copy of it and the second catalog game.
MergeOtherLibraries ==
  { << >>,
    << Game(620, "Portal 2", 120, TRUE, <<"Puzzle", "Co-op">>) >>,
    << Game(620, "Portal 2", 900, TRUE, <<"Puzzle", "Co-op">>),
       Game(550, "Left 4 Dead 2", 900, TRUE, <<"Action", "Zombies">>) >> }

\* No filter, and one filter for each of the four fields.
MergeFilters ==
  { NoFilter,
    [NoFilter EXCEPT !.present = TRUE, !.coopType = "local"],
    [NoFilter EXCEPT !.present = TRUE, !.maxPlayers = 4],
    [NoFilter EXCEPT !.present = TRUE, !.genres = <<"Puzzle", "FPS", "Survival">>],
    [NoFilter EXCEPT !.present = TRUE, !.minCompatibilityScore = 70] }

\* <<appId, score>> of each suggestion of a list, in order.
IdScores(suggestions) ==
  [i \in 1..Len(suggestions) |->
     <<suggestions[i].appId, suggestions[i].compatibilityScore>>]

\* The `suggestions` array of generateSuggestions after the three pushes.
MergedSuggestions(common, user1Games, user2Games) ==
  LET sources == SuggestionSources(common, user1Games, user2Games, NoFilter)
  IN  sources.coopCommonGames \o sources.preferenceBased \o sources.popular

ProbeMerge(user1Games, user2Games, filter) ==
  /\ pc = "probe"
  /\ probe = NoProbe
  /\ LET common == findCommonGames(user1Games, user2Games, config.minPlaytimeForAnalysis)
         merged == MergedSuggestions(common, user1Games, user2Games)
     IN  probe' =
           [fn |-> "generateSuggestions: merge",
            owned1 |-> AppIds(user1Games),
            owned2 |-> AppIds(user2Games),
            merged |-> IdScores(merged),
            passed |-> IdScores(applyFilter(merged, filter)),
            value |-> generateSuggestions(common, user1Games, user2Games, filter,
                                          config.maxCoopSuggestions)]
  /\ UNCHANGED <<service, history, config, args, pc, steps, locals, result, thrown>>

NextMerge ==
  \E user1Games \in SeqsUpTo(MergePool, MaxMergeGames),
     user2Games \in MergeOtherLibraries,
     filter \in MergeFilters :
    ProbeMerge(user1Games, user2Games, filter)

SpecMerge == InitSuggestions /\ [][NextMerge]_vars

(***************************************************************************)
(* steam-api-errors: error codes and the retry strategy                    *)
(***************************************************************************)
\* ERROR_INFO_MAP: whether the code is retryable and its retryDelay; an
\* entry without retryDelay has 0 here, which is falsy like undefined.
ERROR_INFO_MAP ==
  [MISSING_API_KEY |-> [retryable |-> FALSE, retryDelay |-> 0],
   INVALID_API_KEY |-> [retryable |-> FALSE, retryDelay |-> 0],
   RATE_LIMITED |-> [retryable |-> TRUE, retryDelay |-> 60000],
   TIMEOUT |-> [retryable |-> TRUE, retryDelay |-> 5000],
   NETWORK_ERROR |-> [retryable |-> TRUE, retryDelay |-> 3000],
   INVALID_STEAM_ID |-> [retryable |-> FALSE, retryDelay |-> 0],
   VANITY_URL_NOT_FOUND |-> [retryable |-> FALSE, retryDelay |-> 0],
   PRIVATE_PROFILE |-> [retryable |-> FALSE, retryDelay |-> 0],
   SERVER_ERROR |-> [retryable |-> TRUE, retryDelay |-> 10000],
   SERVICE_UNAVAILABLE |-> [retryable |-> TRUE, retryDelay |-> 30000],
   INVALID_RESPONSE |-> [retryable |-> TRUE, retryDelay |-> 5000],
   UNKNOWN_ERROR |-> [retryable |-> TRUE, retryDelay |-> 5000]]

getErrorInfo(code) ==
  IF code \in DOMAIN ERROR_INFO_MAP THEN ERROR_INFO_MAP[code] ELSE ERROR_INFO_MAP["UNKNOWN_ERROR"]

mapHttpStatusToErrorCode(status) ==
  CASE status \in {401, 403} -> "INVALID_API_KEY"
    [] status = 429 -> "RATE_LIMITED"
    [] status \in {500, 502, 503} -> "SERVER_ERROR"
    [] status = 504 -> "TIMEOUT"
    [] OTHER -> "UNKNOWN_ERROR"

\* String.prototype.includes on the messages of FetchErrors.
MessageIncludes(message, word) ==
  <<message, word>> \in
    { <<"fetch failed", "fetch">>,
      <<"network timeout", "network">>,
      <<"network timeout", "timeout">> }

mapNetworkErrorToErrorCode(error) ==
  IF error.name = "AbortError" \/ MessageIncludes(error.message, "timeout") THEN "TIMEOUT"
  ELSE IF MessageIncludes(error.message, "network") \/ MessageIncludes(error.message, "fetch")
    THEN "NETWORK_ERROR"
  ELSE "UNKNOWN_ERROR"

\* new SteamApiError(code, message, retryable); status 0 stands for no
\* status property.
SteamApiError(code, message, retryable) ==
  [name |-> "SteamApiError", code |-> code, message |-> message,
   hasRetryable |-> TRUE, retryable |-> retryable, status |-> 0]

\* An error that fetch rejects with: it has a name and a message, and
\* neither a retryable nor a status property.
FetchError(name, message) ==
  [name |-> name, code |-> "", message |-> message,
   hasRetryable |-> FALSE, retryable |-> FALSE, status |-> 0]

NoFetchError == FetchError("", "")

\* new RetryStrategy()
defaultRetryStrategy ==
  [maxRetries |-> 3, baseDelay |-> 1000, maxDelay |-> 30000, backoffMultiplier |-> 2]

shouldRetry(strategy, error, attemptCount) ==
  IF attemptCount >= strategy.maxRetries THEN FALSE
  ELSE IF error.hasRetryable THEN error.retryable
  ELSE IF error.status # 0 THEN getErrorInfo(mapHttpStatusToErrorCode(error.status)).retryable
  ELSE getErrorInfo(mapNetworkErrorToErrorCode(error)).retryable

RECURSIVE Pow(_, _)
Pow(base, exponent) ==
  IF exponent <= 0 THEN 1 ELSE base * Pow(base, exponent - 1)

\* calculateDelay; `random` is the value of Math.random().
calculateDelay(strategy, attemptCount, errorCode, random) ==
  LET delay == RInt(strategy.baseDelay * Pow(strategy.backoffMultiplier, attemptCount - 1))
      jitter == RMul(RMul(random, Rat(1, 10)), delay)
  IN  IF errorCode # "" /\ getErrorInfo(errorCode).retryDelay # 0
        THEN RInt(getErrorInfo(errorCode).retryDelay)
        ELSE RMin(RAdd(delay, jitter), RInt(strategy.maxDelay))

(***************************************************************************)
(* SteamApiService.fetchWithRetry                                          *)
(***************************************************************************)
\* this.config of the service
ServiceConfig == [timeout |-> 10000, maxRetries |-> 3]

\* Status codes a response may carry.
HttpStatuses == {200, 401, 403, 404, 429, 500, 502, 503, 504}

\* Errors fetch may reject with; the first is the abort by the timeout.
FetchErrors ==
  { FetchError("AbortError", "This operation was aborted"),
    FetchError("TypeError", "fetch failed"),
    FetchError("Error", "network timeout"),
    FetchError("Error", "socket hang up") }

\* Values of Math.random(), which is at least 0 and less than 1.
RandomValues == {RInt(0), Rat(1, 2), Rat(99, 100)}

\* Response.ok
ResponseOk(status) == status >= 200 /\ status <= 299

\* The condition of the retry branch of the catch block, accepting one
\* attempt more.
WillRetryInclusive(error, attemptCount) ==
  LET isRetryableError ==
        IF error.name = "SteamApiError" THEN error.retryable
        ELSE shouldRetry(defaultRetryStrategy, error, attemptCount)
  IN  isRetryableError /\ attemptCount <= ServiceConfig.maxRetries

\* The condition of the retry branch of the catch block.
WillRetry(error, attemptCount) ==
  LET isRetryableError ==
        IF error.name = "SteamApiError" THEN error.retryable
        ELSE shouldRetry(defaultRetryStrategy, error, attemptCount)
  IN  isRetryableError /\ attemptCount < ServiceConfig.maxRetries

\* The catch block, up to the await of the delay or to the throw.
Catch(req, error, random) ==
  IF WillRetry(error, req.attemptCount)
    THEN LET errorCode ==
               IF error.name = "SteamApiError" THEN error.code
               ELSE mapNetworkErrorToErrorCode(error)
         IN  [req EXCEPT !.pc = "delay",
                         !.codes = Append(@, errorCode),
                         !.delays = Append(@, calculateDelay(defaultRetryStrategy,
                                                             req.attemptCount + 1,
                                                             errorCode, random))]
    ELSE [req EXCEPT !.pc = "thrown",
                     !.error =
                       IF error.name # "SteamApiError"
                         THEN SteamApiError(mapNetworkErrorToErrorCode(error),
                                            IF error.message # "" THEN error.message
                                            ELSE "Network error",
                                            FALSE)
                         ELSE error]

\* fetchWithRetry(url) is called.
FetchWithRetry ==
  /\ request = NoRequest
  /\ request' = [pc |-> "fetch", attemptCount |-> 0, attempts |-> 0, codes |-> << >>,
                 delays |-> << >>, error |-> NoFetchError]
  /\ UNCHANGED <<cache, pendingRequests, promises, calls, now, history, config, probe, args, pc,
                 steps, locals, result, thrown>>

\* fetch resolves with a response.
FetchResolves(status, random) ==
  /\ request.pc = "fetch"
  /\ LET attempted == [request EXCEPT !.attempts = @ + 1]
     IN  request' =
           IF ResponseOk(status) THEN [attempted EXCEPT !.pc = "returned"]
           ELSE Catch(attempted,
                      SteamApiError(mapHttpStatusToErrorCode(status),
                                    "HTTP error: " \o ToString(status),
                                    mapHttpStatusToErrorCode(status) # "INVALID_API_KEY"),
                      random)
  /\ UNCHANGED <<cache, pendingRequests, promises, calls, now, history, config, probe, args, pc,
                 steps, locals, result, thrown>>

\* fetch rejects, because the connection failed or the timeout aborted it.
FetchRejects(error, random) ==
  /\ request.pc = "fetch"
  /\ request' = Catch([request EXCEPT !.attempts = @ + 1], error, random)
  /\ UNCHANGED <<cache, pendingRequests, promises, calls, now, history, config, probe, args, pc,
                 steps, locals, result, thrown>>

\* The delay is over: fetchWithRetry(url, attemptCount + 1).
DelayElapses ==
  /\ request.pc = "delay"
  /\ request' = [request EXCEPT !.pc = "fetch", !.attemptCount = @ + 1]
  /\ UNCHANGED <<cache, pendingRequests, promises, calls, now, history, config, probe, args, pc,
                 steps, locals, result, thrown>>

FetchSettles ==
  \E random \in RandomValues :
    \/ \E status \in HttpStatuses : FetchResolves(status, random)
    \/ \E error \in FetchErrors : FetchRejects(error, random)

NextFetch ==
  \/ FetchWithRetry
  \/ FetchSettles
  \/ DelayElapses

SpecFetch == Init /\ [][NextFetch]_vars

\* A fetch settles, by its response, its failure or the abort of the
\* timeout, and the timer of a delay fires.
FairSpecFetch == SpecFetch /\ WF_vars(FetchSettles) /\ WF_vars(DelayElapses)

(***************************************************************************)
(* CacheManager, as the SteamApiCacheManager that the service uses.  The   *)
(* cache is the list of its entries in insertion order, each with its key. *)
(***************************************************************************)
\* new SteamApiCacheManager()
SteamApiCacheConfig ==
  [maxEntries |-> 500, defaultTtl |-> 600000, cleanupInterval |-> 300000, enableStats |-> TRUE]

\* null, which get returns for a miss and which a factory may resolve with.
JsNull == "null"

\* What a factory may resolve with.
FactoryValues == {JsNull, "data A", "data B"}

\* Keys, and the ttl argument that the service calls getOrSet with for each;
\* 0 would stand for an omitted ttl.
CacheKeys == {"library", "summary"}

KeyTtl(key) == IF key = "library" THEN 600000 ELSE 300000

MaxCalls == 3

MaxTicks == 2

\* The index of the entry with the key, 0 if there is none.
EntryIndex(entries, key) ==
  IF \E i \in 1..Len(entries) : entries[i].key = key
    THEN CHOOSE i \in 1..Len(entries) : entries[i].key = key
    ELSE 0

RemoveAt(s, i) == SubSeq(s, 1, i - 1) \o SubSeq(s, i + 1, Len(s))

isExpired(entry, time) == time > entry.timestamp + entry.ttl

CountMiss(c) ==
  IF SteamApiCacheConfig.enableStats THEN [c EXCEPT !.stats.misses = @ + 1] ELSE c

CountHit(c) ==
  IF SteamApiCacheConfig.enableStats THEN [c EXCEPT !.stats.hits = @ + 1] ELSE c

\* get(key): the cache afterwards and the value returned.
get(c, key, time) ==
  LET i == EntryIndex(c.entries, key)
  IN  IF i = 0 THEN [cache |-> CountMiss(c), data |-> JsNull]
      ELSE IF isExpired(c.entries[i], time)
        THEN [cache |-> CountMiss([c EXCEPT !.entries = RemoveAt(@, i)]), data |-> JsNull]
      ELSE [cache |-> CountHit([c EXCEPT !.entries[i].accessCount = @ + 1,
                                         !.entries[i].lastAccessed = time]),
            data |-> c.entries[i].data]

\* The first entry whose lastAccessed is the least is deleted.
evictLeastRecentlyUsed(c) ==
  LET lru ==
        {i \in 1..Len(c.entries) :
           /\ \A j \in 1..Len(c.entries) : c.entries[i].lastAccessed <= c.entries[j].lastAccessed
           /\ \A j \in 1..(i - 1) : c.entries[j].lastAccessed > c.entries[i].lastAccessed}
  IN  IF lru = {} THEN c
      ELSE LET removed == [c EXCEPT !.entries = RemoveAt(@, CHOOSE i \in lru : TRUE)]
           IN  IF SteamApiCacheConfig.enableStats
                 THEN [removed EXCEPT !.stats.evictions = @ + 1]
                 ELSE removed

\* set(key, data, ttl)
set(c, key, data, ttl, time) ==
  LET entryTtl == IF ttl # 0 THEN ttl ELSE SteamApiCacheConfig.defaultTtl
      i == EntryIndex(c.entries, key)
      entry == [key |-> key, data |-> data, timestamp |-> time, ttl |-> entryTtl,
                accessCount |-> 0, lastAccessed |-> time]
      room == IF Len(c.entries) >= SteamApiCacheConfig.maxEntries
                THEN evictLeastRecentlyUsed(c) ELSE c
  IN  IF i # 0
        THEN [c EXCEPT !.entries[i].data = data, !.entries[i].timestamp = time,
                       !.entries[i].ttl = entryTtl, !.entries[i].lastAccessed = time]
        ELSE [room EXCEPT !.entries = Append(@, entry)]

\* cleanup()
cleanup(c, time) ==
  [c EXCEPT !.entries = SelectSeq(@, LAMBDA entry : ~isExpired(entry, time))]

\* pendingRequests.get(key): the promise, 0 if there is none.
PendingFor(pending, key) ==
  IF \E i \in 1..Len(pending) : pending[i].key = key
    THEN pending[CHOOSE i \in 1..Len(pending) : pending[i].key = key].promise
    ELSE 0

\* pendingRequests.delete(key)
PendingDelete(pending, key) == SelectSeq(pending, LAMBDA entry : entry.key # key)

\* The factory invocations for the key that have not completed.
InFlight(key) ==
  {p \in 1..Len(promises) : promises[p].key = key /\ promises[p].state = "pending"}

\* The factory invocations for the key that have resolved with a value.
Fulfilled(key) ==
  {p \in 1..Len(promises) : promises[p].key = key /\ promises[p].state = "fulfilled"}

\* The factory invocation whose value was the last one stored for the key, 0
\* if none was.
Producer(key) ==
  IF \E p \in 1..Len(promises) : promises[p].key = key /\ promises[p].latest
    THEN CHOOSE p \in 1..Len(promises) : promises[p].key = key /\ promises[p].latest
    ELSE 0

\* getOrSet(key, factory, ttl): up to its return.  It returns the cached
\* value, or the pending promise, or the promise of a new factory invocation.
\* A call is stale when the value it got from the cache was produced by a
\* factory invocation started before a clear() or delete(key) made since.
GetOrSet(key) ==
  /\ Len(calls) < MaxCalls
  /\ LET got == get(cache, key, now)
         pendingRequest == PendingFor(pendingRequests, key)
         call == [key |-> key, at |-> now, inFlight |-> InFlight(key),
                  fulfilled |-> Fulfilled(key),
                  stale |-> /\ got.data # JsNull
                            /\ Producer(key) # 0
                            /\ promises[Producer(key)].invalidated,
                  source |-> "cache", promise |-> 0, data |-> got.data]
     IN  /\ cache' = got.cache
         /\ IF got.data # JsNull
              THEN /\ calls' = Append(calls, call)
                   /\ UNCHANGED <<pendingRequests, promises>>
            ELSE IF pendingRequest # 0
              THEN /\ calls' = Append(calls, [call EXCEPT !.source = "pending",
                                                          !.promise = pendingRequest])
                   /\ UNCHANGED <<pendingRequests, promises>>
            ELSE /\ promises' = Append(promises,
                                       [key |-> key, ttl |-> KeyTtl(key), state |-> "pending",
                                        data |-> JsNull, settledAt |-> 0,
                                        latest |-> FALSE, invalidated |-> FALSE])
                 /\ pendingRequests' = Append(pendingRequests,
                                              [key |-> key, promise |-> Len(promises) + 1])
                 /\ calls' = Append(calls, [call EXCEPT !.source = "factory",
                                                        !.promise = Len(promises) + 1])
  /\ UNCHANGED <<request, now, history, config, probe, args, pc, steps, locals, result, thrown>>

\* The promise of a factory is fulfilled: the then callback of getOrSet.
FactoryResolves(p, data) ==
  /\ p \in 1..Len(promises)
  /\ promises[p].state = "pending"
  /\ cache' = set(cache, promises[p].key, data, promises[p].ttl, now)
  /\ pendingRequests' = PendingDelete(pendingRequests, promises[p].key)
  /\ promises' =
       [q \in 1..Len(promises) |->
          IF q = p
            THEN [promises[q] EXCEPT !.state = "fulfilled", !.data = data,
                                     !.settledAt = now, !.latest = TRUE]
          ELSE IF promises[q].key = promises[p].key
            THEN [promises[q] EXCEPT !.latest = FALSE]
          ELSE promises[q]]
  /\ UNCHANGED <<request, calls, now, history, config, probe, args, pc, steps, locals, result,
                 thrown>>

\* The promise of a factory is rejected: the catch callback of getOrSet.
FactoryRejects(p) ==
  /\ p \in 1..Len(promises)
  /\ promises[p].state = "pending"
  /\ pendingRequests' = PendingDelete(pendingRequests, promises[p].key)
  /\ promises' = [promises EXCEPT ![p].state = "rejected", ![p].settledAt = now]
  /\ UNCHANGED <<request, cache, calls, now, history, config, probe, args, pc, steps, locals,
                 result, thrown>>

\* The cleanup timer fires.
Cleanup ==
  /\ cache' = cleanup(cache, now)
  /\ UNCHANGED <<request, pendingRequests, promises, calls, now, history, config, probe, args, pc,
                 steps, locals, result, thrown>>

\* Time passes: one cleanup interval.
Tick ==
  /\ now < MaxTicks * SteamApiCacheConfig.cleanupInterval
  /\ now' = now + SteamApiCacheConfig.cleanupInterval
  /\ UNCHANGED <<request, cache, pendingRequests, promises, calls, history, config, probe, args,
                 pc, steps, locals, result, thrown>>

NextCache ==
  \/ \E key \in CacheKeys : GetOrSet(key)
  \/ \E p \in 1..MaxCalls, data \in FactoryValues : FactoryResolves(p, data)
  \/ \E p \in 1..MaxCalls : FactoryRejects(p)
  \/ Cleanup
  \/ Tick

SpecCache == Init /\ [][NextCache]_vars

(***************************************************************************)
(* The cache manager with its invalidation: clear() and delete(key), which *)
(* CacheInvalidator.invalidateByPattern calls for each matching key.       *)
(***************************************************************************)
\* clear(): both maps are emptied and the statistics are reset.  Every factory
\* invocation made so far was started before this call.
Clear ==
  /\ cache' = [entries |-> << >>,
               stats |-> IF SteamApiCacheConfig.enableStats
                           THEN [hits |-> 0, misses |-> 0, evictions |-> 0]
                           ELSE cache.stats]
  /\ pendingRequests' = << >>
  /\ promises' = [q \in 1..Len(promises) |-> [promises[q] EXCEPT !.invalidated = TRUE]]
  /\ UNCHANGED <<request, calls, now, history, config, probe, args, pc, steps, locals, result,
                 thrown>>

\* delete(key): the entry is removed from the cache map; pendingRequests is
\* left alone.  Every factory invocation made so far for the key was started
\* before this call.
Delete(key) ==
  /\ cache' = [cache EXCEPT !.entries = SelectSeq(@, LAMBDA entry : entry.key # key)]
  /\ promises' =
       [q \in 1..Len(promises) |->
          IF promises[q].key = key THEN [promises[q] EXCEPT !.invalidated = TRUE]
          ELSE promises[q]]
  /\ UNCHANGED <<request, pendingRequests, calls, now, history, config, probe, args, pc, steps,
                 locals, result, thrown>>

\* The calls and completions of NextCache with the invalidations, at one
\* instant: no entry expires in between.
NextInvalidation ==
  \/ \E key \in CacheKeys : GetOrSet(key)
  \/ \E p \in 1..MaxCalls, data \in FactoryValues : FactoryResolves(p, data)
  \/ \E p \in 1..MaxCalls : FactoryRejects(p)
  \/ Clear
  \/ \E key \in CacheKeys : Delete(key)

SpecInvalidation == Init /\ [][NextInvalidation]_vars

(***************************************************************************)
(* Properties                                                              *)
(***************************************************************************)
Ids(games) == {games[i].appId : i \in 1..Len(games)}

BothPresent == library1.present /\ library2.present

BothPublic == BothPresent /\ library1.isPublic /\ library2.isPublic

BothEmpty == Len(library1.games) = 0 /\ Len(library2.games) = 0

\* analyze has ended, by returning or by throwing.
Ended == pc \in {"done", "failed"}

Ran(step) == \E i \in 1..Len(steps) : steps[i] = step

\* C1: for two public libraries that are not both empty, under the default
\* config and any filter, analyze returns, and the score it returns is an
\* integer between 0 and 100.
C1_ScoreIsIntegerInRange ==
  (config = DefaultConfig /\ BothPublic /\ ~BothEmpty /\ Ended)
    => /\ pc = "done"
       /\ result.present
       /\ VIsInt(result.score)
       /\ RLe(RInt(0), result.score.q)
       /\ RLe(result.score.q, RInt(100))

\* Two identical non-empty libraries were analysed and a score came back.
C1_Witness ==
  /\ pc = "done"
  /\ BothPublic
  /\ library1.games = library2.games
  /\ Len(library1.games) = 2
  /\ result.present

\* C2: the returned score is round(min(100, max(0, 0.35 * base + 0.25 * genre
\* + 0.25 * playtime + 0.15 * coop))), the four component scores being those
\* of the lists and statistics returned by the same call.
C2_Weighted ==
  VAddRat(VScale(calculatePlaytimeScore(result.playtimeCompatibility), Rat(25, 100)),
          RAdd(RAdd(RMul(calculateBaseScore(result.commonGames, Len(library1.games),
                                            Len(library2.games)),
                         Rat(35, 100)),
                    RMul(calculateGenreScore(result.genreCompatibility), Rat(25, 100))),
               RMul(calculateCoopBonus(result.coopSuggestions), Rat(15, 100))))

C2_ScoreIsRoundedWeightedSum ==
  pc = "done"
    => LET clamped == VMinRat(RInt(100), VMaxRat(RInt(0), C2_Weighted))
       IN  /\ VIsInt(result.score)
           /\ RatLeV(RSub(result.score.q, Rat(1, 2)), clamped)
           /\ ~RatLeV(RAdd(result.score.q, Rat(1, 2)), clamped)
           /\ result.score = Val(RInt(MathRound(clamped)))

\* A call returned in which all four components are positive and the
\* weighted sum is not a whole number, so every term and the rounding count.
C2_Witness ==
  /\ pc = "done"
  /\ scores.baseScore.n > 0
  /\ scores.genreScore.n > 0
  /\ scores.playtimeScore.q.n > 0
  /\ scores.coopBonus.n > 0
  /\ ~VIsInt(scores.finalScore)

\* C3: with both libraries present, analyze throws PRIVATE_PROFILE whenever
\* one of them is not public, whatever the libraries hold; it never throws
\* INSUFFICIENT_DATA and never returns a result then.
C3_PrivateProfile ==
  (BothPresent /\ (~library1.isPublic \/ ~library2.isPublic) /\ pc \notin {"idle", "validateInputs"})
    => /\ pc = "failed"
       /\ thrown.hasType
       /\ thrown.type = "PRIVATE_PROFILE"
       /\ ~result.present

\* analyze threw for a private first library while both libraries were empty.
C3_Witness ==
  /\ pc = "failed"
  /\ BothPresent
  /\ ~library1.isPublic
  /\ library2.isPublic
  /\ BothEmpty
  /\ thrown.type = "PRIVATE_PROFILE"

\* C4: for two public libraries analyze throws INSUFFICIENT_DATA exactly when
\* both game lists are empty; with one empty list it throws nothing and
\* returns a result.
C4_InsufficientData ==
  (BothPublic /\ pc \notin {"idle", "validateInputs"})
    => /\ (pc = "failed") <=> BothEmpty
       /\ (thrown.hasType /\ thrown.type = "INSUFFICIENT_DATA") <=> BothEmpty
       /\ ~BothEmpty => thrown = NoError
       /\ pc = "done" => result.present

\* analyze returned for a public pair of which exactly one list is empty.
C4_Witness ==
  /\ pc = "done"
  /\ BothPublic
  /\ Len(library1.games) = 0
  /\ Len(library2.games) > 0
  /\ result.present
  /\ thrown = NoError

\* C5: every validation failure of analyze is an error value carrying a tag
\* that tells which of the three kinds it is (missing library, private
\* profile, insufficient data), and a message.
C5_ErrorsAreTagged ==
  pc = "failed"
    => /\ thrown.hasType
       /\ thrown.type \in {"INVALID_INPUT", "PRIVATE_PROFILE", "INSUFFICIENT_DATA"}
       /\ thrown.message # ""

\* C6: validation is the first step of analyze, and when it fails no other
\* step has run: nothing was derived and nothing is returned.
C6_FailsBeforeDeriving ==
  /\ steps # << >> => steps[1] = "validateInputs"
  /\ pc = "failed"
       => /\ steps = <<"validateInputs">>
          /\ commonGames = << >>
          /\ genreCompatibility = << >>
          /\ playtimeCompatibility = NoPlaytimeCompatibility
          /\ coopSuggestions = << >>
          /\ scores = NoScores
          /\ recommendations = << >>
          /\ ~result.present

\* Validation failed for two libraries that hold a common game.
C6_Witness ==
  /\ pc = "failed"
  /\ BothPresent
  /\ Ids(library1.games) \cap Ids(library2.games) # {}

\* The three-branch reference of C7, the similarity being 0 when both
\* playtimes are 0.
C7_Reference(p1, p2, t) ==
  LET similarity == IF IMax(p1, p2) = 0 THEN RInt(0) ELSE Rat(IMin(p1, p2), IMax(p1, p2))
      bonus == RMin(RInt(1), Rat(p1 + p2, 1200))
  IN  IF p1 < t /\ p2 < t THEN Rat(1, 10)
      ELSE IF (p1 < t) # (p2 < t) THEN Rat(4, 10)
      ELSE RMin(RInt(1), RAdd(RMul(Rat(7, 10), similarity), RMul(Rat(3, 10), bonus)))

ProbedFactor == probe.fn = "calculateGameCompatibilityFactor"

\* C7 as claimed: for all playtimes and thresholds >= 0 the factor equals the
\* three-branch reference.
C7_FactorIsReference ==
  ProbedFactor
    => probe.value = C7_Reference(probe.playtime1, probe.playtime2, config.minPlaytimeForAnalysis)

\* C7: the factor equals the three-branch reference whenever one of the
\* playtimes is positive or the threshold is positive, which for identical
\* playtimes p >= t is min(1, 0.7 + 0.3 * min(1, 2p/1200)), 0.76 at p = 120
\* and t = 30; for p1 = p2 = 0 with threshold 0 the factor is 0.1.
C7_FactorIsReferenceUnlessAllZero ==
  ProbedFactor
    => LET p1 == probe.playtime1
           p2 == probe.playtime2
           t == config.minPlaytimeForAnalysis
       IN  /\ (p1 > 0 \/ p2 > 0 \/ t > 0) => probe.value = C7_Reference(p1, p2, t)
           /\ (p1 = 0 /\ p2 = 0 /\ t = 0) => probe.value = Rat(1, 10)
           /\ (p1 = p2 /\ p1 >= t /\ p1 > 0)
                => probe.value
                     = RMin(RInt(1), RAdd(Rat(7, 10),
                                          RMul(Rat(3, 10), RMin(RInt(1), Rat(2 * p1, 1200)))))
           /\ (p1 = 120 /\ p2 = 120 /\ t = 30) => probe.value = Rat(76, 100)

\* The factor of two playtimes of 120 minutes under threshold 30 is 0.76.
C7_Witness ==
  /\ ProbedFactor
  /\ probe.playtime1 = 120
  /\ probe.playtime2 = 120
  /\ config.minPlaytimeForAnalysis = 30
  /\ probe.value = Rat(19, 25)

\* C8: the identifiers in the common-game list are the intersection of the
\* two sequences' identifiers, so the same set whichever sequence comes
\* first; user1Playtime is the playtime of a first-argument copy of the game
\* and user2Playtime that of a second-argument copy.
C8_FromCopies(common, first, second) ==
  \A i \in 1..Len(common) :
    /\ \E j \in 1..Len(first) :
         first[j].appId = common[i].appId /\ first[j].playtimeForever = common[i].user1Playtime
    /\ \E j \in 1..Len(second) :
         second[j].appId = common[i].appId /\ second[j].playtimeForever = common[i].user2Playtime

C8_CommutativeMembership ==
  pc = "analyzeGenreCompatibility"
    => LET swapped ==
             findCommonGames(library2.games, library1.games, config.minPlaytimeForAnalysis)
       IN  /\ Ids(commonGames) = Ids(library1.games) \cap Ids(library2.games)
           /\ Ids(swapped) = Ids(commonGames)
           /\ C8_FromCopies(commonGames, library1.games, library2.games)
           /\ C8_FromCopies(swapped, library2.games, library1.games)

\* A common game was found that the two users played for different times.
C8_Witness ==
  /\ pc = "analyzeGenreCompatibility"
  /\ Len(commonGames) = 1
  /\ commonGames[1].user1Playtime = 120
  /\ commonGames[1].user2Playtime = 0

\* C9: the common-game list holds no two entries with the same identifier,
\* whatever the two sequences are.
C9_NoDuplicateCommonGames ==
  Ran("findCommonGames")
    => \A i, j \in 1..Len(commonGames) :
         commonGames[i].appId = commonGames[j].appId => i = j

NoDuplicates(s) == \A i, j \in 1..Len(s) : s[i] = s[j] => i = j

\* C10: in every returned result no genre label occurs twice in the genre
\* list and no app identifier occurs twice in the co-op suggestion list.
C10_NoDuplicateGenresOrSuggestions ==
  pc = "done"
    => /\ NoDuplicates([i \in 1..Len(result.genreCompatibility) |->
                          result.genreCompatibility[i].genre])
       /\ NoDuplicates([i \in 1..Len(result.coopSuggestions) |->
                          result.coopSuggestions[i].appId])

\* A result was returned for which the same genre was counted more than once
\* and the suggestion sources produced the same app identifier twice.
C10_Witness ==
  /\ pc = "done"
  /\ \E i \in 1..Len(result.genreCompatibility) :
       result.genreCompatibility[i].user1Count + result.genreCompatibility[i].user2Count >= 3
  /\ ~NoDuplicates([i \in 1..Len(extractCoopFromCommonGames(commonGames)) |->
                      extractCoopFromCommonGames(commonGames)[i].appId])
  /\ \E i \in 1..Len(result.coopSuggestions) : result.coopSuggestions[i].appId = 620

\* C11: from the moment analyze is called until it has returned or thrown,
\* no step changes either library: the game sequences keep their elements and
\* order, and every game its fields and genre list.
C11_InputsUnchanged ==
  [][pc # "idle" => (library1' = library1 /\ library2' = library2)]_vars

\* analyze returned common games, suggestions and recommendations for two
\* libraries of two games each.
C11_Witness ==
  /\ pc = "done"
  /\ Len(library1.games) = 2
  /\ Len(library2.games) = 2
  /\ Len(result.commonGames) > 0
  /\ Len(result.recommendations) > 0
  /\ Len(result.coopSuggestions) > 0

C13_Reference(common, totalGames1, totalGames2) ==
  LET ratio == RDiv(RInt(Len(common)), RDiv(RInt(totalGames1 + totalGames2), RInt(2)))
      avgFactor ==
        IF Len(common) = 0 THEN RInt(0)
        ELSE RDiv(SumRat([i \in 1..Len(common) |-> common[i].compatibilityFactor]),
                  RInt(Len(common)))
  IN  RMin(RInt(100),
           RAdd(RMul(ratio, RInt(70)), RMul(avgFactor, RInt(30))))

ProbedBaseScore == probe.fn = "calculateBaseScore"

\* Two libraries of 10 games that share 5, every shared game played exactly
\* the 30 minutes of the threshold by both users.
C13_Example ==
  /\ ProbedBaseScore
  /\ config.minPlaytimeForAnalysis = 30
  /\ probe.totalGames1 = 10
  /\ probe.totalGames2 = 10
  /\ Len(probe.common) = 5
  /\ \A i \in 1..5 : probe.common[i].user1Playtime = 30 /\ probe.common[i].user2Playtime = 30

ProbedRecommendations == probe.fn = "generateRecommendations"

\* The places of the recommendation list whose game is in the set `owned`.
RecommendedFrom(owned) ==
  {i \in 1..Len(probe.value) : probe.value[i].appId \in owned}

\* C14: every recommended game is owned by exactly one user and was played
\* at least the threshold; at most half the cap comes from each library and
\* the list is no longer than the cap.
C14_RecommendationsBounded ==
  ProbedRecommendations =>
    /\ \A i \in 1..Len(probe.value) :
         /\ (probe.value[i].appId \in probe.owned1) # (probe.value[i].appId \in probe.owned2)
         /\ probe.value[i].estimatedPlaytime >= config.minPlaytimeForAnalysis
    /\ 2 * Cardinality(RecommendedFrom(probe.owned1)) <= config.maxRecommendations
    /\ 2 * Cardinality(RecommendedFrom(probe.owned2)) <= config.maxRecommendations
    /\ Len(probe.value) <= config.maxRecommendations

\* With an odd cap of 5, two games of each user were recommended although
\* each user owns four games alone and the users share two.
C14_Witness ==
  /\ ProbedRecommendations
  /\ config.maxRecommendations = 5
  /\ Len(probe.common) = 2
  /\ Cardinality(probe.owned1 \ probe.owned2) = 4
  /\ Cardinality(probe.owned2 \ probe.owned1) = 4
  /\ Cardinality(RecommendedFrom(probe.owned1)) = 2
  /\ Cardinality(RecommendedFrom(probe.owned2)) = 2

\* The eligible games in `eligible` that are not recommended.
C21_LeftOut(eligible) ==
  {e \in eligible : \A i \in 1..Len(probe.value) : probe.value[i].appId # e[1]}

\* No eligible game of `eligible` that is left out scores higher than a
\* recommended game of the same user, whose games are `owned`.
C21_Ranked(eligible, owned) ==
  \A e \in C21_LeftOut(eligible) :
    \A i \in RecommendedFrom(owned) : RLe(e[2], probe.value[i].recommendationScore)

\* C21: the recommendations are ranked by score over all eligible games: for
\* each user, no eligible game of that user that is left out of the list has
\* a higher recommendation score than a game of the same user that is in it.
C21_RankedOverEligible ==
  ProbedRecommendations =>
    /\ C21_Ranked(probe.eligible1, probe.owned1)
    /\ C21_Ranked(probe.eligible2, probe.owned2)

\* C22: when maxRecommendations is odd and each user has more eligible games
\* than half the cap, one user gets one more recommendation than the other,
\* and the two users' recommendations together fill the cap.
C22_OddCapExtraSlot ==
  ( /\ ProbedRecommendations
    /\ config.maxRecommendations % 2 = 1
    /\ 2 * Cardinality(probe.eligible1) > config.maxRecommendations
    /\ 2 * Cardinality(probe.eligible2) > config.maxRecommendations )
  => /\ Abs(Cardinality(RecommendedFrom(probe.owned1))
             - Cardinality(RecommendedFrom(probe.owned2))) = 1
     /\ Len(probe.value) = config.maxRecommendations

\* With an odd cap and more eligible games than half the cap on both sides,
\* each user gets floor(cap / 2) recommendations and one slot stays empty.
C22_EqualSlices ==
  ( /\ ProbedRecommendations
    /\ config.maxRecommendations % 2 = 1
    /\ 2 * Cardinality(probe.eligible1) > config.maxRecommendations
    /\ 2 * Cardinality(probe.eligible2) > config.maxRecommendations )
  => /\ Cardinality(RecommendedFrom(probe.owned1)) = config.maxRecommendations \div 2
     /\ Cardinality(RecommendedFrom(probe.owned2)) = config.maxRecommendations \div 2
     /\ Len(probe.value) = config.maxRecommendations - 1

\* Cap 3, two eligible games per user: one recommendation for each.
C22_TwoOfThree ==
  /\ ProbedRecommendations
  /\ config.maxRecommendations = 3
  /\ Cardinality(probe.eligible1) = 2
  /\ Cardinality(probe.eligible2) = 2
  /\ Len(probe.value) = 2

\* The genres of the common games.
C18_CommonGenres == UNION {Range(probe.common[i].genres) : i \in 1..Len(probe.common)}

\* The number of a recommendation's genres that occur among the common games'.
C18_Matching(rec) == Len(SelectSeq(rec.genres, LAMBDA g : g \in C18_CommonGenres))

\* 3 points per 600 played minutes, at most 30.
C18_PlaytimeTerm(minutes) == RMin(RInt(30), RMul(RInt(3), Rat(minutes, 600)))

\* C18: a recommendation's score is min(100, 50 + playtimeTerm + 5 * g), the
\* playtime term being 3 points per 10 played hours, capped at 30.
C18_ScoreIsReference ==
  ProbedRecommendations =>
    \A i \in 1..Len(probe.value) :
      probe.value[i].recommendationScore =
        RMin(RInt(100),
             RAdd(RAdd(RInt(50), C18_PlaytimeTerm(probe.value[i].estimatedPlaytime)),
                  RInt(5 * C18_Matching(probe.value[i]))))

\* A game played 600 minutes, none of whose genres is a common game's, is
\* recommended with score 51.
C18_Scored51 ==
  /\ ProbedRecommendations
  /\ \E i \in 1..Len(probe.value) :
       /\ probe.value[i].estimatedPlaytime = 600
       /\ C18_Matching(probe.value[i]) = 0
       /\ probe.value[i].recommendationScore = RInt(51)

ProbedPlaytimeScore == probe.fn = "calculatePlaytimeScore"

\* The similar-count ratio in percent, 100 from 10 similar games on.
C20_SimilarCountRatio(similar) == RMin(RInt(100), RInt(10 * similar))

\* C20: the playtime score is min(100, (corr + 1) * 50 * 0.6 + ratio * 0.4)
\* with the similar-count ratio capped at 100, so that its term is at most
\* 40 points.
C20_SimilarTermCapped ==
  ProbedPlaytimeScore =>
    LET playtime == probe.playtimeCompatibility
        correlationTerm ==
          VScale(VScale(VAddRat(playtime.playtimeCorrelation, RInt(1)), RInt(50)), Rat(6, 10))
        similarTerm == RMul(C20_SimilarCountRatio(playtime.similarPlaytimeGames), Rat(4, 10))
    IN  /\ RLe(similarTerm, RInt(40))
        /\ probe.value = VMinRat(RInt(100), VAddRat(correlationTerm, similarTerm))

\* Eleven similar common games with correlation -1 score 44.
C20_Scored44 ==
  /\ ProbedPlaytimeScore
  /\ probe.playtimeCompatibility.similarPlaytimeGames = 11
  /\ probe.playtimeCompatibility.playtimeCorrelation = Val(RInt(-1))
  /\ probe.value = Val(RInt(44))

ProbedSuggestions == probe.fn = "generateSuggestions"

C19_Ids(suggestions) == {suggestions[i].appId : i \in 1..Len(suggestions)}

\* The catalog games flagged popular that neither user owns.
C19_PopularUnowned ==
  {coopGamesDatabase[i].appId :
     i \in {j \in 1..Len(coopGamesDatabase) :
              coopGamesDatabase[j].isPopular /\ coopGamesDatabase[j].appId \notin probe.owned}}

\* No filter was given and the cap on the list did not cut it.
C19_Unfiltered == ~probe.filtered /\ probe.sources.candidates <= config.maxCoopSuggestions

\* The scores with which the game is returned.
C19_ReturnedScores(appId) ==
  {probe.value[i].compatibilityScore : i \in {j \in 1..Len(probe.value) : probe.value[j].appId = appId}}

\* C19 as stated: the popularity source emits, at score 60, every popular
\* unowned game that the owned-common source did not produce, those of the
\* preference source included; unfiltered and uncut, each is returned with a
\* score of at least 60.
C19_PopularIncludesPreferred ==
  ProbedSuggestions =>
    /\ C19_Ids(probe.sources.popular) = C19_PopularUnowned \ C19_Ids(probe.sources.coopCommonGames)
    /\ \A i \in 1..Len(probe.sources.popular) : probe.sources.popular[i].compatibilityScore = RInt(60)
    /\ C19_Unfiltered =>
         \A appId \in C19_PopularUnowned \ C19_Ids(probe.sources.coopCommonGames) :
           \E score \in C19_ReturnedScores(appId) : RLe(RInt(60), score)

\* C19, amended: the popularity source emits, at score 60, every popular
\* unowned game that neither the owned-common source nor the preference
\* source produced; unfiltered and uncut, every popular unowned game is
\* returned, with score 60 when the popularity source emitted it and with its
\* preference score, which is above 55, otherwise.
C19_PopularFillsTheRest ==
  ProbedSuggestions =>
    /\ C19_Ids(probe.sources.popular) =
         C19_PopularUnowned \ (C19_Ids(probe.sources.coopCommonGames) \cup C19_Ids(probe.sources.preferenceBased))
    /\ \A i \in 1..Len(probe.sources.popular) : probe.sources.popular[i].compatibilityScore = RInt(60)
    /\ \A i \in 1..Len(probe.sources.preferenceBased) :
         RLt(RInt(55), probe.sources.preferenceBased[i].compatibilityScore)
    /\ C19_Unfiltered =>
         /\ \A i \in 1..Len(probe.sources.popular) :
              \E j \in 1..Len(probe.value) : probe.value[j] = probe.sources.popular[i]
         /\ \A i \in 1..Len(probe.sources.preferenceBased) :
              \E j \in 1..Len(probe.value) : probe.value[j] = probe.sources.preferenceBased[i]
         /\ \A appId \in C19_PopularUnowned :
              \E score \in C19_ReturnedScores(appId) : RLt(RInt(55), score)

\* Unfiltered and uncut, a popular unowned game that the preference source
\* produced is returned with a score below 60, next to games of the
\* popularity source.
C19_Witness ==
  /\ ProbedSuggestions
  /\ C19_Unfiltered
  /\ Len(probe.sources.popular) > 0
  /\ \E i \in 1..Len(probe.sources.preferenceBased) :
       /\ probe.sources.preferenceBased[i].appId \in C19_PopularUnowned
       /\ RLt(probe.sources.preferenceBased[i].compatibilityScore, RInt(60))
       /\ \E j \in 1..Len(probe.value) : probe.value[j] = probe.sources.preferenceBased[i]

\* The request is over.
FetchEnded == request.pc \in {"returned", "thrown"}

C15_Bounded ==
  request # NoRequest =>
    /\ request.attempts <= 4
    /\ Len(request.delays) <= 3
    /\ request.attemptCount <= 3
    /\ request.pc = "thrown" => request.error.name = "SteamApiError"
    /\ (request.attempts = 4 /\ request.pc # "returned") => request.pc = "thrown"

\* C15: whatever the responses, a fetchWithRetry request makes at most 4
\* fetch attempts and 3 retries, ends after the fourth failure by throwing a
\* SteamApiError, and every request that was started ends.
C15_RetriesEnd ==
  /\ []C15_Bounded
  /\ (request.pc = "fetch") ~> FetchEnded

\* A request has thrown a SteamApiError after four failed attempts and
\* three delays.
C15_Witness ==
  /\ request # NoRequest
  /\ request.pc = "thrown"
  /\ request.attempts = 4
  /\ Len(request.delays) = 3
  /\ request.error.name = "SteamApiError"

\* baseDelay * backoffMultiplier^(k-1)
C16_Backoff(k) ==
  RInt(defaultRetryStrategy.baseDelay * Pow(defaultRetryStrategy.backoffMultiplier, k - 1))

\* C16: the delay before the k-th retry after a rate-limit error is
\* baseDelay * backoffMultiplier^(k-1) plus a jitter of at most a tenth of
\* it, and is never above the strategy's maxDelay.
C16_RateLimitBackoff ==
  request # NoRequest =>
    \A k \in 1..Len(request.delays) :
      request.codes[k] = "RATE_LIMITED" =>
        /\ RLe(C16_Backoff(k), request.delays[k])
        /\ RLe(request.delays[k], RMul(Rat(11, 10), C16_Backoff(k)))
        /\ RLe(request.delays[k], RInt(defaultRetryStrategy.maxDelay))

\* Three rate-limit errors in a row were each followed by a delay of 60000 ms.
C16_ConstantDelays ==
  /\ request # NoRequest
  /\ request.codes = <<"RATE_LIMITED", "RATE_LIMITED", "RATE_LIMITED">>
  /\ request.delays = <<RInt(60000), RInt(60000), RInt(60000)>>

\* The ttl of the entry that the fulfilled promise stored.
C17_EntryTtl(p) ==
  IF promises[p].ttl # 0 THEN promises[p].ttl ELSE SteamApiCacheConfig.defaultTtl

\* The call was made within the TTL of a value that a factory invocation for
\* its key had resolved with.
C17_WithinTtl(call) ==
  \E p \in call.fulfilled : call.at <= promises[p].settledAt + C17_EntryTtl(p)

\* C17: a getOrSet call made while a factory invocation for its key is
\* pending invokes no factory and receives the promise of that single
\* invocation; a call within the TTL of a resolved value is served from the
\* cache and invokes no factory.
C17_FactoryOnce ==
  \A c \in 1..Len(calls) :
    /\ calls[c].inFlight # {} =>
         /\ Cardinality(calls[c].inFlight) = 1
         /\ calls[c].source = "pending"
         /\ calls[c].promise \in calls[c].inFlight
    /\ (calls[c].inFlight = {} /\ C17_WithinTtl(calls[c])) => calls[c].source = "cache"

\* A factory resolved with null, and a call for its key at the time of the
\* resolution invoked the factory again.
C17_NullNotCached ==
  \E c \in 1..Len(calls) :
    \E p \in calls[c].fulfilled :
      /\ promises[p].data = JsNull
      /\ promises[p].settledAt = calls[c].at
      /\ calls[c].source = "factory"

ProbedPreference == probe.fn = "generatePreferenceBasedSuggestions"

\* The sum of all preference weights.
C23_TotalWeight == SumRat([k \in 1..Len(probe.weights) |-> probe.weights[k][2]])

\* The preference weight of one genre, 0 when the map lacks it.
C23_WeightOf(genre) ==
  LET at == {k \in 1..Len(probe.weights) : probe.weights[k][1] = genre}
  IN  IF at = {} THEN RInt(0) ELSE probe.weights[CHOOSE k \in at : TRUE][2]

\* The genre-match ratio of a catalog game; 0 when nothing has weight.
C23_Ratio(coopGame) ==
  IF C23_TotalWeight.n = 0 THEN RInt(0)
  ELSE RDiv(SumRat([i \in 1..Len(coopGame.genres) |-> C23_WeightOf(coopGame.genres[i])]),
            C23_TotalWeight)

\* The places of the returned list that hold the catalog game.
C23_CandidatesFor(coopGame) ==
  {i \in 1..Len(probe.value) : probe.value[i].appId = coopGame.appId}

ProbedMerge == probe.fn = "generateSuggestions: merge"

\* The appIds of the candidates that passed the filter.
C24_PassedIds == {probe.passed[i][1] : i \in 1..Len(probe.passed)}

\* The highest score among the candidates for `appId` that passed the filter.
C24_Best(appId) ==
  LET mine == {i \in 1..Len(probe.passed) : probe.passed[i][1] = appId}
  IN  probe.passed[CHOOSE i \in mine :
                     \A j \in mine : RLe(probe.passed[j][2], probe.passed[i][2])][2]

C24_ReturnedIds == {probe.value[i].appId : i \in 1..Len(probe.value)}

\* C24: generateSuggestions returns the merged candidates after filtering,
\* deduplication by appId keeping the highest score among those that passed
\* the filter, sorting by descending score, and truncation to maxSuggestions:
\* at most maxSuggestions entries, in non-increasing score order, and no
\* candidate left out by the truncation scores higher than a returned one.
C24_MergedFilteredSortedCut ==
  ProbedMerge =>
    /\ Len(probe.value) = IMin(config.maxCoopSuggestions, Cardinality(C24_PassedIds))
    /\ \A i \in 1..Len(probe.value) :
         /\ probe.value[i].appId \in C24_PassedIds
         /\ probe.value[i].compatibilityScore = C24_Best(probe.value[i].appId)
         /\ \A j \in 1..Len(probe.value) :
              /\ (i < j => RLe(probe.value[j].compatibilityScore,
                               probe.value[i].compatibilityScore))
              /\ (i # j => probe.value[i].appId # probe.value[j].appId)
         /\ \A id \in C24_PassedIds \ C24_ReturnedIds :
              RLe(C24_Best(id), probe.value[i].compatibilityScore)

\* A call where the filter removed candidates, one appId passed the filter
\* twice with different scores, and more games were left than the cap.
C24_Witness ==
  /\ ProbedMerge
  /\ Len(probe.passed) < Len(probe.merged)
  /\ \E i, j \in 1..Len(probe.passed) :
       /\ probe.passed[i][1] = probe.passed[j][1]
       /\ probe.passed[i][2] # probe.passed[j][2]
  /\ Cardinality(C24_PassedIds) > config.maxCoopSuggestions
  /\ Len(probe.value) = config.maxCoopSuggestions

ProbedGenres == probe.fn = "analyzeGenreCompatibility"

\* The games of a library that have genre data and were played at least the
\* threshold.
C25_Qualifying(games) ==
  {i \in 1..Len(games) : games[i][2] /\ games[i][1] >= config.minPlaytimeForAnalysis}

\* The number of qualifying games of a library that carry the genre.
C25_Count(games, genre) ==
  Cardinality({i \in C25_Qualifying(games) : genre \in Range(games[i][3])})

\* The genres carried by a qualifying game of either library.
C25_Genres ==
  UNION ({Range(probe.games1[i][3]) : i \in C25_Qualifying(probe.games1)}
           \cup {Range(probe.games2[i][3]) : i \in C25_Qualifying(probe.games2)})

\* C25: the genre-compatibility list has exactly one record for each genre
\* carried by a game with genre data played at least the threshold in either
\* library; user1Count and user2Count are the numbers of such games per user,
\* commonCount is their minimum, compatibilityScore is commonCount divided by
\* their maximum, times 100, and the list is in descending score order.
C25_GenreRecords ==
  ProbedGenres =>
    /\ {probe.value[k].genre : k \in 1..Len(probe.value)} = C25_Genres
    /\ Len(probe.value) = Cardinality(C25_Genres)
    /\ \A k \in 1..Len(probe.value) :
         LET r == probe.value[k]
             count1 == C25_Count(probe.games1, r.genre)
             count2 == C25_Count(probe.games2, r.genre)
         IN  /\ r.user1Count = count1
             /\ r.user2Count = count2
             /\ r.commonCount = IMin(count1, count2)
             /\ r.compatibilityScore
                  = RMul(Rat(IMin(count1, count2), IMax(count1, count2)), RInt(100))
    /\ \A k \in 1..(Len(probe.value) - 1) :
         RLe(probe.value[k + 1].compatibilityScore, probe.value[k].compatibilityScore)

\* Threshold 60: user 1 holds Counter-Strike twice, user 2 Counter-Strike and
\* Half-Life, which was played 30 minutes. Action and FPS are counted 2 and 1,
\* with score 50 each, and Half-Life adds nothing.
C25_Witness ==
  /\ ProbedGenres
  /\ config.minPlaytimeForAnalysis = 60
  /\ \E i \in 1..Len(probe.games2) :
       probe.games2[i][2] /\ probe.games2[i][1] < 60 /\ "Action" \in Range(probe.games2[i][3])
  /\ \E k \in 1..Len(probe.value) :
       /\ probe.value[k].genre = "Action"
       /\ probe.value[k].user1Count = 2
       /\ probe.value[k].user2Count = 1
       /\ probe.value[k].compatibilityScore = RInt(50)

ProbedPlaytimeCompatibility == probe.fn = "calculatePlaytimeCompatibility"

\* The common games whose playtimes are not both 0 and differ by at most 30%
\* of the larger one.
C26_Similar ==
  {i \in 1..Len(probe.playtimes) :
     LET p1 == probe.playtimes[i][1]
         p2 == probe.playtimes[i][2]
     IN  IMax(p1, p2) > 0 /\ 10 * Abs(p1 - p2) <= 3 * IMax(p1, p2)}

\* C26: similarPlaytimeGames is the number of common games with
\* max(p1, p2) > 0 and |p1 - p2| <= 0.3 * max(p1, p2); a common game that
\* neither user played is not counted, and every playtime statistic is 0 for
\* an empty list of common games.
C26_SimilarPlaytimeGames ==
  ProbedPlaytimeCompatibility =>
    /\ probe.value.similarPlaytimeGames = Cardinality(C26_Similar)
    /\ Len(probe.playtimes) = 0 => probe.value = NoPlaytimeCompatibility

\* Common games that neither user played: none of them is counted.
C26_Witness ==
  /\ ProbedPlaytimeCompatibility
  /\ Len(probe.playtimes) > 1
  /\ \A i \in 1..Len(probe.playtimes) : probe.playtimes[i] = <<0, 0>>
  /\ probe.value.similarPlaytimeGames = 0

\* C27: every suggestion returned by generateSuggestions is for a catalog
\* game owned by both users, with bothOwnGame = true, or by neither user, with
\* bothOwnGame = false; a catalog game owned by exactly one of the two users
\* is never suggested.
C27_OwnedByBothOrNeither ==
  ProbedMerge =>
    \A i \in 1..Len(probe.value) :
      LET appId == probe.value[i].appId
      IN  /\ isCoopGame(appId)
          /\ \/ /\ appId \in probe.owned1 \cap probe.owned2
                /\ probe.value[i].bothOwnGame = TRUE
             \/ /\ appId \notin probe.owned1 \cup probe.owned2
                /\ probe.value[i].bothOwnGame = FALSE

\* Both users own Portal 2 and only the first owns Left 4 Dead 2: Portal 2 is
\* suggested as owned by both, other games as owned by neither, and Left 4
\* Dead 2 is not suggested although every other catalog game is.
C27_Witness ==
  /\ ProbedMerge
  /\ 620 \in probe.owned1 \cap probe.owned2
  /\ 550 \in probe.owned1 \ probe.owned2
  /\ \E i \in 1..Len(probe.value) : probe.value[i].appId = 620 /\ probe.value[i].bothOwnGame
  /\ \E i \in 1..Len(probe.value) : ~probe.value[i].bothOwnGame
  /\ Len(probe.value) = Len(coopGamesDatabase) - 1

\* The two libraries of the analysis share no game.
C28_Disjoint == Ids(library1.games) \cap Ids(library2.games) = {}

\* C28: whenever the two libraries share no game, the playtime component
\* score is exactly 30, so that under the default weights the analysis of two
\* disjoint public libraries returns a final score of at least 8 although
\* the base component is 0.
C28_DisjointLibrariesScoreAtLeast8 ==
  (pc = "done" /\ C28_Disjoint) =>
    /\ BothPublic
    /\ config.weights = DefaultConfig.weights
    /\ result.commonGames = << >>
    /\ scores.playtimeScore = Val(RInt(30))
    /\ scores.baseScore = RInt(0)
    /\ VIsInt(result.score)
    /\ RLe(RInt(8), result.score.q)

\* Two public libraries without a common game, neither of them empty, have
\* been analysed.
C28_Witness ==
  /\ pc = "done"
  /\ C28_Disjoint
  /\ Len(library1.games) > 0
  /\ Len(library2.games) > 0
  /\ result.present
  /\ scores.baseScore = RInt(0)
  /\ scores.playtimeScore = Val(RInt(30))

\* C29: under every interleaving of getOrSet calls, factory completions or
\* failures and clear(), at most one factory invocation per key is in flight
\* at any time.
C29_OneInFlightPerKey ==
  \A key \in CacheKeys : Cardinality(InFlight(key)) <= 1

\* Two factory invocations for one key are in flight, and pendingRequests
\* holds none of them: the completion of the first, started before a clear(),
\* removed the entry of the second.
C29_EntryOfLaterRequestRemoved ==
  \E p1, p2 \in 1..Len(promises) :
    /\ p1 < p2
    /\ promises[p1].key = promises[p2].key
    /\ promises[p1].invalidated
    /\ promises[p1].state # "pending"
    /\ ~promises[p2].invalidated
    /\ promises[p2].state = "pending"
    /\ PendingFor(pendingRequests, promises[p2].key) = 0

\* C30: once clear() or delete(key) has returned, a later get(key) never
\* returns a value produced by a factory invocation that was started before
\* that call.
C30_InvalidationIsFinal ==
  \A c \in 1..Len(calls) : ~calls[c].stale

====
